---------------------------- MODULE Spec2Model ----------------------------
(***************************************************************************)
(* Movie catalog backend: the dual-source movie identity scheme, combined  *)
(* search, review ledger and watchlist ledger, modelled from the routes,   *)
(* the model classes and the table definitions.                            *)
(*                                                                         *)
(* JavaScript strings that the code inspects character by character (the  *)
(* movie reference) are sequences of one-character strings.  Every await   *)
(* of a database query or of a provider call is one atomic step of the     *)
(* handler that issues it; handlers of different requests interleave       *)
(* between their awaits.                                                   *)
(***************************************************************************)
EXTENDS Integers, Sequences, FiniteSets, TLC

VARIABLES
    idPair,         \* identity: the (origin, rawId) being encoded, or NoPair
    idRef,          \* identity: the reference string, << >> before it is known
    idDecoded,      \* identity: the result of decoding idRef, or NoDecoded
    omdbFetch,      \* search: what fetch() of the provider's search page does
    omdbResults,    \* search: what OMDBService.searchMovies returned
    customResults,  \* search: the rows Movie.search returned
    searchResponse, \* search: the body of GET /api/movies/search, or NoResponse
    reviews,        \* the reviews table: a set of rows
    reviewSeq,      \* the reviews table's SERIAL counter (last id handed out)
    rreq,           \* review requests in flight: slot -> request record
    statsOut,       \* the result of the getMovieStats call under test
    watchlists,     \* the watchlists table: a set of rows
    watchlistSeq,   \* the watchlists table's SERIAL counter
    wreq,           \* watchlist requests in flight: slot -> request record
    movies,         \* the movies table: a set of rows
    movieSeq,       \* the movies table's SERIAL counter
    mreq,           \* movie requests in flight: slot -> request record
    users,          \* the users table: a set of rows
    userSeq,        \* the users table's SERIAL counter
    ureq,           \* auth requests in flight: slot -> request record
    env,            \* process.env: the names of the variables that are set
    server          \* the server process: "starting", "validated", "listening", "exited"

vars == << idPair, idRef, idDecoded, omdbFetch, omdbResults, customResults, searchResponse,
           reviews, reviewSeq, rreq, statsOut, watchlists, watchlistSeq, wreq,
           movies, movieSeq, mreq, users, userSeq, ureq, env, server >>

identityVars == << idPair, idRef, idDecoded >>
searchVars == << omdbFetch, omdbResults, customResults, searchResponse >>
reviewVars == << reviews, reviewSeq, rreq, statsOut >>
watchlistVars == << watchlists, watchlistSeq, wreq >>
movieVars == << movies, movieSeq, mreq >>
userVars == << users, userSeq, ureq >>
startupVars == << env, server >>

\* the marker of a value that is not there yet (a string where one is expected)
NoValue == "none"

\* SQL NULL in an integer column (no stored integer is negative)
NULL == 0 - 1

-----------------------------------------------------------------------------
(* Bounds of the model.                                                    *)

\* longest suffix appended to a sampled reference prefix
MaxSuffixLen == 2
\* largest local catalog key that is encoded
MaxKey == 12

-----------------------------------------------------------------------------
(* JavaScript string primitives on character sequences.                    *)

Digits == << "0", "1", "2", "3", "4", "5", "6", "7", "8", "9" >>

\* Number.prototype.toString for a non-negative integer: its decimal digits
RECURSIVE numberToString(_)
numberToString(n) ==
    IF n < 10 THEN << Digits[n + 1] >>
    ELSE numberToString(n \div 10) \o << Digits[(n % 10) + 1] >>

\* String.prototype.startsWith
startsWith(s, p) ==
    /\ Len(s) >= Len(p)
    /\ SubSeq(s, 1, Len(p)) = p

\* String.prototype.indexOf, 1-based; 0 when p does not occur in s
indexOf(s, p) ==
    LET hits == { i \in 1..(Len(s) - Len(p) + 1) : SubSeq(s, i, i + Len(p) - 1) = p }
    IN  IF hits = {} THEN 0 ELSE CHOOSE i \in hits : \A j \in hits : i <= j

\* String.prototype.replace with a string pattern: only the first
\* occurrence is replaced
replaceBroken(s, p, r) ==
    IF Len(s) < Len(p) THEN s ELSE r \o SubSeq(s, Len(p), Len(s))

replace(s, p, r) ==
    LET i == indexOf(s, p)
    IN  IF i = 0 THEN s
        ELSE SubSeq(s, 1, i - 1) \o r \o SubSeq(s, i + Len(p), Len(s))

IsDigit(c) == \E i \in 1..10 : Digits[i] = c

DigitValue(c) == (CHOOSE i \in 1..10 : Digits[i] = c) - 1

RECURSIVE decimalValue(_)
decimalValue(s) ==
    IF s = << >> THEN 0
    ELSE 10 * decimalValue(SubSeq(s, 1, Len(s) - 1)) + DigitValue(s[Len(s)])

Int4Max == 2147483647

\* The store's conversion of a text parameter compared with an INTEGER
\* column (movies.id is SERIAL): a digit string in range is accepted, any
\* other text makes the store reject the query.  Signs and blanks are not in
\* the sampled alphabet.
pgInt4Accepts(s) ==
    /\ Len(s) > 0
    /\ \A i \in 1..Len(s) : IsDigit(s[i])
    /\ decimalValue(s) <= Int4Max

pgInt4In(s) == decimalValue(s)

-----------------------------------------------------------------------------
(* Identity scheme.                                                        *)

CustomPrefix == << "c", "u", "s", "t", "o", "m", "_" >>

\* imdbID of a reformatted local row: `custom_${movie.id}`
encodeCustom(id) == CustomPrefix \o numberToString(id)

\* the reference of an entry of either origin
encode(pair) ==
    IF pair.origin = "custom" THEN encodeCustom(pair.key) ELSE pair.id

\* the branch GET /api/movies/:id takes and the identifier it looks up
decode(id) ==
    IF startsWith(id, CustomPrefix)
    THEN [ movieSource |-> "custom", rawId |-> replace(id, CustomPrefix, << >>) ]
    ELSE [ movieSource |-> "omdb", rawId |-> id ]

\* strings over alphabet of length at most n
RECURSIVE StringsUpTo(_, _)
StringsUpTo(alphabet, n) ==
    IF n = 0 THEN { << >> }
    ELSE LET shorter == StringsUpTo(alphabet, n - 1)
         IN  shorter \cup { s \o << c >> : s \in shorter, c \in alphabet }

SuffixAlphabet == { "0", "1", "a", "_" }

RefPrefixes ==
    { << >>,
      CustomPrefix,
      << "c", "u", "s", "t", "o", "m" >>,
      << "C", "u", "s", "t", "o", "m", "_" >>,
      << "t", "t" >>,
      << "x" >> \o CustomPrefix,
      CustomPrefix \o CustomPrefix }

\* the reference strings a request can carry (a route parameter is not empty)
RefSamples ==
    { p \o s : p \in RefPrefixes, s \in StringsUpTo(SuffixAlphabet, MaxSuffixLen) }
        \ { << >> }

\* the provider's native identifiers: "tt" followed by digits
OmdbIds ==
    { << "t", "t" >> \o s : s \in StringsUpTo({ "0", "1" }, MaxSuffixLen) \ { << >> } }

\* the valid (origin, rawId) pairs: a local key (rawId is the number key) or
\* a provider identifier (rawId is the string id)
ValidPairs ==
    { [ origin |-> "custom", key |-> k, id |-> << >> ] : k \in 1..MaxKey }
        \cup { [ origin |-> "omdb", key |-> 0, id |-> x ] : x \in OmdbIds }

NoPair == [ origin |-> NoValue, key |-> 0, id |-> << >> ]
NoDecoded == [ movieSource |-> NoValue, rawId |-> << >> ]

\* idRef = << >> : no reference yet (a reference is never the empty string)
IdleIdentity ==
    /\ idPair = NoPair
    /\ idRef = << >>
    /\ idDecoded = NoDecoded

IdentityInputs ==
    /\ idDecoded = NoDecoded
    /\ \/ idPair \in ValidPairs /\ idRef = << >>
       \/ idPair = NoPair /\ idRef \in RefSamples

EncodeReference ==
    /\ idPair # NoPair
    /\ idRef = << >>
    /\ idRef' = encode(idPair)
    /\ UNCHANGED << idPair, idDecoded >>
    /\ UNCHANGED << searchVars, reviewVars, watchlistVars, movieVars, userVars, startupVars >>

DecodeReference ==
    /\ idRef # << >>
    /\ idDecoded = NoDecoded
    /\ idDecoded' = decode(idRef)
    /\ UNCHANGED << idPair, idRef >>
    /\ UNCHANGED << searchVars, reviewVars, watchlistVars, movieVars, userVars, startupVars >>

-----------------------------------------------------------------------------
(* Combined search: GET /api/movies/search.                                *)

\* most entries in a sampled provider answer
MaxOmdbResults == 2
\* most rows in a sampled local search result
MaxCustomResults == 2

LowerOf ==
    [ c \in { "D", "U", "N", "E", "H", "A", "T" } |->
        CASE c = "D" -> "d" [] c = "U" -> "u" [] c = "N" -> "n" [] c = "E" -> "e"
          [] c = "H" -> "h" [] c = "A" -> "a" [] c = "T" -> "t" ]

\* String.prototype.toLowerCase
toLowerCase(s) ==
    [ i \in 1..Len(s) |-> IF s[i] \in DOMAIN LowerOf THEN LowerOf[s[i]] ELSE s[i] ]

Dune == << "D", "u", "n", "e" >>
TitleSamples == { Dune, toLowerCase(Dune), << "H", "e", "a", "t" >> }
\* the Year strings of the provider's entries
OmdbYears == { << "2", "0", "2", "0" >>, << "2", "0", "2", "1" >> }

\* Year of a reformatted local row: movie.year?.toString() || ''
yearString(year) == IF year = NULL THEN << >> ELSE numberToString(year)

\* Movie.transformToOMDBFormat, the fields the search and the detail lookup
\* read
transformToOMDBFormat(movie) ==
    [ imdbID |-> encodeCustom(movie.id),
      Title  |-> movie.title,
      Year   |-> yearString(movie.year),
      Source |-> "custom",
      Response |-> "True" ]

\* a search entry of the provider (it carries no Source and no Response)
OmdbItem(n, title, year) ==
    [ imdbID |-> << "t", "t" >> \o numberToString(n),
      Title  |-> title,
      Year   |-> year,
      Source |-> NoValue,
      Response |-> NoValue ]

\* the test of the deduplication: same title ignoring case, same year string
sameMovieBroken(m, movie) ==
    /\ m.Title = movie.Title
    /\ m.Year = movie.Year

sameMovie(m, movie) ==
    /\ toLowerCase(m.Title) = toLowerCase(movie.Title)
    /\ m.Year = movie.Year

\* Array.prototype.findIndex with the deduplication's test, 1-based
findIndex(self, movie) ==
    LET hits == { j \in 1..Len(self) : sameMovie(self[j], movie) }
    IN  IF hits = {} THEN 0 ELSE CHOOSE j \in hits : \A k \in hits : j <= k

\* combinedMovies.filter((movie, index, self) => index === self.findIndex(...))
RECURSIVE filterUnique(_, _)
filterUnique(self, n) ==
    IF n = 0 THEN << >>
    ELSE LET before == filterUnique(self, n - 1)
         IN  IF findIndex(self, self[n]) = n THEN Append(before, self[n]) ELSE before

combinedMovies(omdb, custom) ==
    omdb.Search \o [ i \in 1..Len(custom) |-> transformToOMDBFormat(custom[i]) ]

\* the body of the search response with the total counted after the
\* deduplication
combinedSearchBroken(omdb, custom) ==
    LET combined == combinedMovies(omdb, custom)
        uniqueMovies == filterUnique(combined, Len(combined))
    IN  [ Search       |-> uniqueMovies,
          totalResults |-> numberToString(decimalValue(omdb.totalResults)
                                            - Len(omdb.Search) + Len(uniqueMovies)),
          Response     |-> IF Len(uniqueMovies) > 0 THEN "True" ELSE "False" ]

\* the body of the search response
combinedSearch(omdb, custom) ==
    LET combined == combinedMovies(omdb, custom)
        uniqueMovies == filterUnique(combined, Len(combined))
    IN  [ Search       |-> uniqueMovies,
          totalResults |-> numberToString(decimalValue(omdb.totalResults) + Len(custom)),
          Response     |-> IF Len(uniqueMovies) > 0 THEN "True" ELSE "False" ]

SeqsUpTo(S, n) == UNION { [ 1..k -> S ] : k \in 0..n }

OmdbAnswers ==
    { [ Search       |-> [ i \in 1..Len(q) |-> OmdbItem(i, q[i][1], q[i][2]) ],
        totalResults |-> numberToString(Len(q) + extra),
        Response     |-> "True",
        Error        |-> NoValue ] :
        q \in SeqsUpTo(TitleSamples \X OmdbYears, MaxOmdbResults),
        extra \in { 0, 10 } }

\* rows of the movies table as Movie.search returns them: distinct keys
CustomAnswers ==
    { [ i \in 1..Len(q) |-> [ id |-> i, title |-> q[i][1], year |-> q[i][2] ] ] :
        q \in SeqsUpTo(TitleSamples \X { 2021, NULL }, MaxCustomResults) }

NoAnswer ==
    [ Search |-> << >>, totalResults |-> << >>, Response |-> NoValue, Error |-> NoValue ]

\* the JSON body of the provider's search page: a page of entries, or the
\* error object, which has neither Search nor totalResults; `defined` is the
\* set of the properties the body has
OmdbBodies ==
    { [ defined      |-> { "Search", "totalResults", "Response" },
        Search       |-> a.Search,
        totalResults |-> a.totalResults,
        Response     |-> "True",
        Error        |-> NoValue ] : a \in { b \in OmdbAnswers : Len(b.Search) > 0 } }
      \cup { [ defined      |-> { "Response", "Error" },
               Search       |-> << >>,
               totalResults |-> << >>,
               Response     |-> "False",
               Error        |-> "Movie not found!" ] }

NoBody ==
    [ defined |-> {}, Search |-> << >>, totalResults |-> << >>,
      Response |-> NoValue, Error |-> NoValue ]

\* what the call of the provider does: fetch() or response.json() rejects
\* ("throws"), the provider answers with a status that is not OK ("status"),
\* or it answers OK with a JSON body ("json")
NoFetch == [ outcome |-> "none", body |-> NoBody ]
SearchFetches ==
    { [ outcome |-> o, body |-> NoBody ] : o \in { "throws", "status" } }
      \cup { [ outcome |-> "json", body |-> b ] : b \in OmdbBodies }

\* checkApiKey: API_KEY is process.env.OMDB_API_KEY
checkApiKey(e) == "OMDB_API_KEY" \in e

\* data.property || fallback
orElse(data, property, fallback) ==
    IF property \in data.defined /\ data[property] # << >>
    THEN data[property]
    ELSE fallback

\* the object searchMovies returns without an answer of the provider
searchFailure(message) ==
    [ Search |-> << >>, totalResults |-> << "0" >>, Response |-> "False",
      Error |-> message ]

\* OMDBService.searchMovies: no key, a rejected call and a status that is
\* not OK (thrown, then caught) return the failure object; a JSON body is
\* returned with its missing properties filled in
OMDBService_searchMoviesBroken(e, fetched) ==
    IF fetched.outcome # "json"
    THEN searchFailure("Failed to fetch from OMDB")
    ELSE LET data == fetched.body
         IN  [ Search       |-> orElse(data, "Search", << >>),
               totalResults |-> orElse(data, "totalResults", << "0" >>),
               Response     |-> IF "Response" \in data.defined
                                THEN data.Response ELSE "False",
               Error        |-> data.Error ]

OMDBService_searchMovies(e, fetched) ==
    IF ~ checkApiKey(e)
    THEN searchFailure("OMDB API key not configured")
    ELSE IF fetched.outcome # "json"
    THEN searchFailure("Failed to fetch from OMDB")
    ELSE LET data == fetched.body
         IN  [ Search       |-> orElse(data, "Search", << >>),
               totalResults |-> orElse(data, "totalResults", << "0" >>),
               Response     |-> IF "Response" \in data.defined
                                THEN data.Response ELSE "False",
               Error        |-> data.Error ]

NoResponse == [ Search |-> << >>, totalResults |-> << >>, Response |-> NoValue ]

IdleSearch ==
    /\ omdbFetch = NoFetch
    /\ omdbResults = NoAnswer
    /\ customResults = << >>
    /\ searchResponse = NoResponse

\* a search whose provider call has returned a page of entries
SearchInputs ==
    /\ omdbFetch = NoFetch
    /\ omdbResults \in OmdbAnswers
    /\ customResults \in CustomAnswers
    /\ searchResponse = NoResponse

SearchMovies ==
    /\ omdbResults # NoAnswer
    /\ searchResponse = NoResponse
    /\ searchResponse' = combinedSearch(omdbResults, customResults)
    /\ UNCHANGED << omdbFetch, omdbResults, customResults >>
    /\ UNCHANGED << identityVars, reviewVars, watchlistVars, movieVars, userVars, startupVars >>

\* the provider's half of the Promise.all of the search handler: the call of
\* OMDBService.searchMovies returns
OMDBSearch ==
    /\ omdbFetch # NoFetch
    /\ omdbResults = NoAnswer
    /\ omdbResults' = OMDBService_searchMovies(env, omdbFetch)
    /\ UNCHANGED << omdbFetch, customResults, searchResponse >>
    /\ UNCHANGED << identityVars, reviewVars, watchlistVars, movieVars, userVars, startupVars >>

-----------------------------------------------------------------------------
(* Users: the rows the database initialisation seeds.                      *)

\* number of users
NUsers == 2

Users == 1..NUsers

\* the first seeded user is the administrator, every other user is a 'user'
roleOf(u) == IF u = 1 THEN "admin" ELSE "user"

-----------------------------------------------------------------------------
(* Review ledger: the reviews table and the Review model class.            *)

\* requests that are handled at the same time
NReq == 2
\* most values the reviews SERIAL hands out
MaxReviewSerial == 2
\* most votes cast on one review
MaxVotes == 1

Slots == 1..NReq

MovieIds == { "tt1" }
MovieSources == { "omdb", "custom" }

NoRow ==
    [ id |-> 0, user_id |-> 0, movie_id |-> NoValue, movie_source |-> NoValue,
      title |-> NoValue, content |-> NoValue, rating |-> NULL,
      helpful_count |-> 0, total_votes |-> 0 ]

\* the row an INSERT INTO reviews stores (counters take their DEFAULT 0)
ReviewRow(id, userId, movieId, movieSource, title, content, rating) ==
    [ id |-> id, user_id |-> userId, movie_id |-> movieId,
      movie_source |-> movieSource, title |-> title, content |-> content,
      rating |-> rating, helpful_count |-> 0, total_votes |-> 0 ]

\* UNIQUE(user_id, movie_id, movie_source): would a new row break it
uniqueViolationBroken(table, userId, movieId, movieSource) == FALSE

uniqueViolation(table, userId, movieId, movieSource) ==
    \E r \in table :
        /\ r.user_id = userId
        /\ r.movie_id = movieId
        /\ r.movie_source = movieSource

\* the one row of a set of at most one row, NoRow for none (rows[0] || null)
firstRow(rows) == IF rows = {} THEN NoRow ELSE CHOOSE r \in rows : TRUE

Review_findById(table, id) == firstRow({ r \in table : r.id = id })

Review_findUserReviewForMovieBroken(table, userId, movieId, movieSource) == NoRow

Review_findUserReviewForMovie(table, userId, movieId, movieSource) ==
    firstRow({ r \in table : /\ r.user_id = userId
                             /\ r.movie_id = movieId
                             /\ r.movie_source = movieSource })

\* COALESCE($n, column)
coalesceText(value, column) == IF value = NoValue THEN column ELSE value
coalesceInt(value, column) == IF value = NULL THEN column ELSE value

\* Review.update: the table after UPDATE ... WHERE id = $4
Review_update(table, id, title, content, rating) ==
    { IF r.id = id
      THEN [ r EXCEPT !.title = coalesceText(title, @),
                      !.content = coalesceText(content, @),
                      !.rating = coalesceInt(rating, @) ]
      ELSE r : r \in table }

\* Review.delete: the table after DELETE ... WHERE id = $1
Review_delete(table, id) == { r \in table : r.id # id }

\* the UPDATE of markHelpful with helpful_count raised whatever $2 is
Review_markHelpfulBroken(table, reviewId, isHelpful) ==
    { IF r.id = reviewId
      THEN [ r EXCEPT !.helpful_count = @ + 1, !.total_votes = @ + 1 ]
      ELSE r : r \in table }

\* Review.markHelpful: the table after the UPDATE of the two counters
Review_markHelpful(table, reviewId, isHelpful) ==
    { IF r.id = reviewId
      THEN [ r EXCEPT !.helpful_count = @ + (IF isHelpful THEN 1 ELSE 0),
                      !.total_votes = @ + 1 ]
      ELSE r : r \in table }

\* rows in ORDER BY created_at DESC: a later insert has the larger id
RECURSIVE newestFirst(_)
newestFirst(rows) ==
    IF rows = {} THEN << >>
    ELSE LET top == CHOOSE r \in rows : \A q \in rows : q.id <= r.id
         IN  << top >> \o newestFirst(rows \ { top })

\* LIMIT $n OFFSET $m of an ordered result
limitOffset(ordered, limit, offset) ==
    SubSeq(ordered, offset + 1,
           IF offset + limit < Len(ordered) THEN offset + limit ELSE Len(ordered))

Review_findByMovie(table, movieId, movieSource, limit, offset) ==
    limitOffset(
        newestFirst({ r \in table : r.movie_id = movieId /\ r.movie_source = movieSource }),
        limit, offset)

RECURSIVE sumRatings(_)
sumRatings(rows) ==
    IF rows = {} THEN 0
    ELSE LET r == CHOOSE r \in rows : TRUE
         IN  r.rating + sumRatings(rows \ { r })

\* the rows the statistics query aggregates
statsRowsBroken(table, movieId, movieSource) ==
    { r \in table : r.movie_id = movieId }

statsRows(table, movieId, movieSource) ==
    { r \in table : r.movie_id = movieId /\ r.movie_source = movieSource }

\* COUNT(CASE WHEN rating >= 7 THEN 1 END) * 100.0 / COUNT(*) over no row
\* divides by zero: the store rejects the query and getMovieStats throws
getMovieStatsThrows(table, movieId, movieSource) ==
    Cardinality(statsRows(table, movieId, movieSource)) = 0

\* parseFloat(x).toFixed(1) of the quotient total / count, count > 0: the
\* nearest tenth, a tie going up (a quotient that is a tie at one decimal
\* is a multiple of 1/4 when count < 20, which a double holds exactly)
toFixed1(total, count) ==
    LET tenths == (20 * total + count) \div (2 * count)
    IN  numberToString(tenths \div 10) \o << "." >> \o numberToString(tenths % 10)

\* Math.round of the quotient total / count, count > 0
mathRound(total, count) == (2 * total + count) \div (2 * count)

NoStats ==
    [ outcome |-> NoValue, totalReviews |-> 0, averageRating |-> << >>,
      recommendationPercentage |-> 0 ]

\* Review.getMovieStats when the query is accepted
Review_getMovieStats(table, movieId, movieSource) ==
    LET rows == statsRows(table, movieId, movieSource)
        count == Cardinality(rows)
        good == Cardinality({ r \in rows : r.rating >= 7 })
    IN  [ outcome |-> "ok",
          totalReviews |-> count,
          averageRating |-> toFixed1(sumRatings(rows), count),
          recommendationPercentage |-> mathRound(100 * good, count) ]

-----------------------------------------------------------------------------
(* Review requests: the handlers of the reviews router.  A handler's slot  *)
(* holds its inputs, the await it is waiting at (pc) and, once it has       *)
(* answered, the response (status, review, page, stats).                    *)

IdleReq ==
    [ op |-> "idle", pc |-> "idle", user |-> 0,
      movieId |-> NoValue, movieSource |-> NoValue,
      title |-> NoValue, content |-> NoValue, rating |-> NULL,
      id |-> 0, helpful |-> FALSE, limit |-> 0, offset |-> 0,
      status |-> 0, review |-> NoRow, page |-> << >>, stats |-> NoStats,
      hasMore |-> FALSE ]

\* the handler answers: res.status(code).json(...)
Answer(req, code) == [ req EXCEPT !.pc = "done", !.status = code ]

CreateTitles == { "A" }
CreateContents == { "ten chars." }
CreateRatings == { 7 }
\* the bodies of an update: << title, content, rating >>, an absent field as
\* NoValue or NULL
UpdateBodies == { << "B", NoValue, 2 >> }
PageLimits == { 1, 2 }
PageNumbers == { 1, 2 }

NoStatsCall == [ movieId |-> NoValue, movieSource |-> NoValue, stats |-> NoStats ]

IdleReviews ==
    /\ reviews = {}
    /\ reviewSeq = 0
    /\ rreq = [ s \in Slots |-> IdleReq ]
    /\ statsOut = NoStatsCall

\* POST /api/reviews up to its first await: the pre-check
\* Review.findUserReviewForMovie and the 409 it answers when a row is found
CreateReviewCheck(s) ==
    /\ rreq[s].pc = "idle"
    /\ reviewSeq < MaxReviewSerial
    /\ \E u \in Users, m \in MovieIds, src \in MovieSources,
          t \in CreateTitles, c \in CreateContents, g \in CreateRatings :
          LET req == [ IdleReq EXCEPT !.op = "create", !.user = u, !.movieId = m,
                                      !.movieSource = src, !.title = t,
                                      !.content = c, !.rating = g ]
              existingReview == Review_findUserReviewForMovie(reviews, u, m, src)
          IN  rreq' = [ rreq EXCEPT ![s] =
                          IF existingReview # NoRow
                          THEN Answer(req, 409)
                          ELSE [ req EXCEPT !.pc = "insert" ] ]
    /\ UNCHANGED << reviews, reviewSeq, statsOut >>
    /\ UNCHANGED << identityVars, searchVars, watchlistVars, movieVars, userVars, startupVars >>

\* Review.create: the INSERT.  The SERIAL value is drawn before the
\* constraint is checked; a violated constraint raises error 23505, which
\* the handler's catch answers with 500
CreateReviewInsert(s) ==
    /\ rreq[s].op = "create"
    /\ rreq[s].pc = "insert"
    /\ reviewSeq < MaxReviewSerial
    /\ reviewSeq' = reviewSeq + 1
    /\ LET req == rreq[s]
       IN  IF uniqueViolation(reviews, req.user, req.movieId, req.movieSource)
           THEN /\ reviews' = reviews
                /\ rreq' = [ rreq EXCEPT ![s] = Answer(req, 500) ]
           ELSE /\ reviews' = reviews \cup
                       { ReviewRow(reviewSeq + 1, req.user, req.movieId,
                                   req.movieSource, req.title, req.content,
                                   req.rating) }
                /\ rreq' = [ rreq EXCEPT ![s] =
                               [ req EXCEPT !.pc = "reload", !.id = reviewSeq + 1 ] ]
    /\ UNCHANGED statsOut
    /\ UNCHANGED << identityVars, searchVars, watchlistVars, movieVars, userVars, startupVars >>

\* Review.findById of the written row and the answer; when the row is gone
\* transformToFrontendFormat(null) throws and the catch answers 500
ReloadAndAnswer(s, code) ==
    /\ rreq[s].pc = "reload"
    /\ LET reviewWithAuthor == Review_findById(reviews, rreq[s].id)
       IN  rreq' = [ rreq EXCEPT ![s] =
                       IF reviewWithAuthor = NoRow
                       THEN Answer(@, 500)
                       ELSE [ Answer(@, code) EXCEPT !.review = reviewWithAuthor ] ]
    /\ UNCHANGED << reviews, reviewSeq, statsOut >>
    /\ UNCHANGED << identityVars, searchVars, watchlistVars, movieVars, userVars, startupVars >>

CreateReviewReload(s) ==
    /\ rreq[s].op = "create"
    /\ ReloadAndAnswer(s, 201)

\* the first step of the update handler with the delete handler's test, which
\* lets an administrator through
UpdateReviewCheckBroken(s) ==
    /\ rreq[s].pc = "idle"
    /\ \E u \in Users, id \in 1..MaxReviewSerial, body \in UpdateBodies :
          LET req == [ IdleReq EXCEPT !.op = "update", !.user = u, !.id = id,
                                      !.title = body[1], !.content = body[2],
                                      !.rating = body[3] ]
              existingReview == Review_findById(reviews, id)
          IN  rreq' = [ rreq EXCEPT ![s] =
                          IF existingReview = NoRow THEN Answer(req, 404)
                          ELSE IF existingReview.user_id # u /\ roleOf(u) # "admin"
                               THEN Answer(req, 403)
                          ELSE [ req EXCEPT !.pc = "write" ] ]
    /\ UNCHANGED << reviews, reviewSeq, statsOut >>
    /\ UNCHANGED << identityVars, searchVars, watchlistVars, movieVars, userVars, startupVars >>

\* PUT /api/reviews/:id up to the ownership check
UpdateReviewCheck(s) ==
    /\ rreq[s].pc = "idle"
    /\ \E u \in Users, id \in 1..MaxReviewSerial, body \in UpdateBodies :
          LET req == [ IdleReq EXCEPT !.op = "update", !.user = u, !.id = id,
                                      !.title = body[1], !.content = body[2],
                                      !.rating = body[3] ]
              existingReview == Review_findById(reviews, id)
          IN  rreq' = [ rreq EXCEPT ![s] =
                          IF existingReview = NoRow THEN Answer(req, 404)
                          ELSE IF existingReview.user_id # u THEN Answer(req, 403)
                          ELSE [ req EXCEPT !.pc = "write" ] ]
    /\ UNCHANGED << reviews, reviewSeq, statsOut >>
    /\ UNCHANGED << identityVars, searchVars, watchlistVars, movieVars, userVars, startupVars >>

\* Review.update; with the row gone rows[0] is undefined and reading
\* updatedReview.id throws
UpdateReviewWrite(s) ==
    /\ rreq[s].op = "update"
    /\ rreq[s].pc = "write"
    /\ LET req == rreq[s]
       IN  /\ reviews' = Review_update(reviews, req.id, req.title, req.content, req.rating)
           /\ rreq' = [ rreq EXCEPT ![s] =
                          IF Review_findById(reviews, req.id) = NoRow
                          THEN Answer(req, 500)
                          ELSE [ req EXCEPT !.pc = "reload" ] ]
    /\ UNCHANGED << reviewSeq, statsOut >>
    /\ UNCHANGED << identityVars, searchVars, watchlistVars, movieVars, userVars, startupVars >>

UpdateReviewReload(s) ==
    /\ rreq[s].op = "update"
    /\ ReloadAndAnswer(s, 200)

\* DELETE /api/reviews/:id up to the author-or-admin check
DeleteReviewCheck(s) ==
    /\ rreq[s].pc = "idle"
    /\ \E u \in Users, id \in 1..MaxReviewSerial :
          LET req == [ IdleReq EXCEPT !.op = "delete", !.user = u, !.id = id ]
              existingReview == Review_findById(reviews, id)
          IN  rreq' = [ rreq EXCEPT ![s] =
                          IF existingReview = NoRow THEN Answer(req, 404)
                          ELSE IF existingReview.user_id # u /\ roleOf(u) # "admin"
                               THEN Answer(req, 403)
                          ELSE [ req EXCEPT !.pc = "write" ] ]
    /\ UNCHANGED << reviews, reviewSeq, statsOut >>
    /\ UNCHANGED << identityVars, searchVars, watchlistVars, movieVars, userVars, startupVars >>

\* Review.delete and the answer
DeleteReviewWrite(s) ==
    /\ rreq[s].op = "delete"
    /\ rreq[s].pc = "write"
    /\ reviews' = Review_delete(reviews, rreq[s].id)
    /\ rreq' = [ rreq EXCEPT ![s] = Answer(@, 200) ]
    /\ UNCHANGED << reviewSeq, statsOut >>
    /\ UNCHANGED << identityVars, searchVars, watchlistVars, movieVars, userVars, startupVars >>

\* the first step of the helpful handler without its self-vote check
MarkHelpfulCheckBroken(s) ==
    /\ rreq[s].pc = "idle"
    /\ \E u \in Users, id \in 1..MaxReviewSerial, h \in BOOLEAN :
          LET req == [ IdleReq EXCEPT !.op = "helpful", !.user = u, !.id = id,
                                      !.helpful = h ]
              existingReview == Review_findById(reviews, id)
          IN  rreq' = [ rreq EXCEPT ![s] =
                          IF existingReview = NoRow THEN Answer(req, 404)
                          ELSE [ req EXCEPT !.pc = "write" ] ]
    /\ UNCHANGED << reviews, reviewSeq, statsOut >>
    /\ UNCHANGED << identityVars, searchVars, watchlistVars, movieVars, userVars, startupVars >>

\* POST /api/reviews/:id/helpful up to the self-vote check
MarkHelpfulCheck(s) ==
    /\ rreq[s].pc = "idle"
    /\ \E u \in Users, id \in 1..MaxReviewSerial, h \in BOOLEAN :
          LET req == [ IdleReq EXCEPT !.op = "helpful", !.user = u, !.id = id,
                                      !.helpful = h ]
              existingReview == Review_findById(reviews, id)
          IN  rreq' = [ rreq EXCEPT ![s] =
                          IF existingReview = NoRow THEN Answer(req, 404)
                          ELSE IF existingReview.user_id = u THEN Answer(req, 400)
                          ELSE [ req EXCEPT !.pc = "write" ] ]
    /\ UNCHANGED << reviews, reviewSeq, statsOut >>
    /\ UNCHANGED << identityVars, searchVars, watchlistVars, movieVars, userVars, startupVars >>

\* the write as a store of counters the handler computed itself: a vote
\* written while another vote on the review awaits its reload is lost
MarkHelpfulWriteUpToBroken(s, max) ==
    /\ rreq[s].op = "helpful"
    /\ rreq[s].pc = "write"
    /\ LET req == rreq[s]
           existing == Review_findById(reviews, req.id)
           inFlight == \E t \in Slots \ { s } :
                          /\ rreq[t].op = "helpful"
                          /\ rreq[t].pc = "reload"
                          /\ rreq[t].id = req.id
       IN  /\ existing # NoRow => existing.total_votes < max
           /\ reviews' = IF inFlight THEN reviews
                         ELSE Review_markHelpful(reviews, req.id, req.helpful)
           /\ rreq' = [ rreq EXCEPT ![s] =
                          IF existing = NoRow
                          THEN Answer(req, 500)
                          ELSE [ req EXCEPT !.pc = "reload" ] ]
    /\ UNCHANGED << reviewSeq, statsOut >>
    /\ UNCHANGED << identityVars, searchVars, watchlistVars, movieVars, userVars, startupVars >>

\* Review.markHelpful, one UPDATE statement, on a review that has fewer than
\* max votes; with the row gone reading updatedReview.id throws
MarkHelpfulWriteUpTo(s, max) ==
    /\ rreq[s].op = "helpful"
    /\ rreq[s].pc = "write"
    /\ LET req == rreq[s]
           existing == Review_findById(reviews, req.id)
       IN  /\ existing # NoRow => existing.total_votes < max
           /\ reviews' = Review_markHelpful(reviews, req.id, req.helpful)
           /\ rreq' = [ rreq EXCEPT ![s] =
                          IF existing = NoRow
                          THEN Answer(req, 500)
                          ELSE [ req EXCEPT !.pc = "reload" ] ]
    /\ UNCHANGED << reviewSeq, statsOut >>
    /\ UNCHANGED << identityVars, searchVars, watchlistVars, movieVars, userVars, startupVars >>

MarkHelpfulWrite(s) == MarkHelpfulWriteUpTo(s, MaxVotes)

MarkHelpfulReload(s) ==
    /\ rreq[s].op = "helpful"
    /\ ReloadAndAnswer(s, 200)

Review_findByUser(table, userId, limit, offset) ==
    limitOffset(newestFirst({ r \in table : r.user_id = userId }), limit, offset)

\* hasMore of the review listings: reviews.length === limitNum
reviewsHasMore(page, limitNum) == Len(page) = limitNum

\* one of the two queries GET /api/reviews/movie/:movieId awaits together
\* (Promise.all): Review.findByMovie
ListQueryPage(req) ==
    [ req EXCEPT !.page = Review_findByMovie(reviews, req.movieId, req.movieSource,
                                             req.limit, req.offset) ]

\* the other one: Review.getMovieStats, whose rejection fails the request
ListQueryStats(req) ==
    [ req EXCEPT !.stats =
        IF getMovieStatsThrows(reviews, req.movieId, req.movieSource)
        THEN [ NoStats EXCEPT !.outcome = "error" ]
        ELSE Review_getMovieStats(reviews, req.movieId, req.movieSource) ]

\* the answer once both queries have settled: 500 from the catch when the
\* statistics query was rejected
ListAnswer(req) ==
    IF req.stats.outcome = "error"
    THEN [ Answer(req, 500) EXCEPT !.page = << >>, !.stats = NoStats ]
    ELSE [ Answer(req, 200) EXCEPT !.hasMore = reviewsHasMore(req.page, req.limit) ]

\* GET /api/reviews/movie/:movieId: the first of the two queries to run
MovieReviewsFirst(s) ==
    /\ rreq[s].pc = "idle"
    /\ \E m \in MovieIds, src \in MovieSources, limit \in PageLimits,
          page \in PageNumbers, first \in { "page", "stats" } :
          LET req == [ IdleReq EXCEPT !.op = "list", !.movieId = m,
                                      !.movieSource = src, !.limit = limit,
                                      !.offset = (page - 1) * limit ]
          IN  rreq' = [ rreq EXCEPT ![s] =
                          IF first = "page"
                          THEN [ ListQueryPage(req) EXCEPT !.pc = "stats" ]
                          ELSE [ ListQueryStats(req) EXCEPT !.pc = "page" ] ]
    /\ UNCHANGED << reviews, reviewSeq, statsOut >>
    /\ UNCHANGED << identityVars, searchVars, watchlistVars, movieVars, userVars, startupVars >>

\* the second query and the answer
MovieReviewsSecond(s) ==
    /\ rreq[s].op = "list"
    /\ rreq[s].pc \in { "page", "stats" }
    /\ rreq' = [ rreq EXCEPT ![s] =
                   IF @.pc = "page"
                   THEN ListAnswer(ListQueryPage(@))
                   ELSE ListAnswer(ListQueryStats(@)) ]
    /\ UNCHANGED << reviews, reviewSeq, statsOut >>
    /\ UNCHANGED << identityVars, searchVars, watchlistVars, movieVars, userVars, startupVars >>

\* GET /api/reviews/user/:userId and GET /api/reviews/my-reviews, the same
\* handler body for the user of the path and for the caller: one query,
\* Review.findByUser, and the answer
UserReviews(s) ==
    /\ rreq[s].pc = "idle"
    /\ \E u \in Users, limit \in PageLimits, page \in PageNumbers :
          LET req == [ IdleReq EXCEPT !.op = "userlist", !.user = u, !.limit = limit,
                                      !.offset = (page - 1) * limit ]
              listed == Review_findByUser(reviews, u, limit, req.offset)
          IN  rreq' = [ rreq EXCEPT ![s] =
                          [ Answer(req, 200) EXCEPT
                              !.page = listed,
                              !.hasMore = reviewsHasMore(listed, limit) ] ]
    /\ UNCHANGED << reviews, reviewSeq, statsOut >>
    /\ UNCHANGED << identityVars, searchVars, watchlistVars, movieVars, userVars, startupVars >>

\* the response has been sent: the slot takes the next request
ReviewRequestEnds(s) ==
    /\ rreq[s].pc = "done"
    /\ rreq' = [ rreq EXCEPT ![s] = IdleReq ]
    /\ UNCHANGED << reviews, reviewSeq, statsOut >>
    /\ UNCHANGED << identityVars, searchVars, watchlistVars, movieVars, userVars, startupVars >>

NextReviews ==
    \E s \in Slots :
        \/ CreateReviewCheck(s)
        \/ CreateReviewInsert(s)
        \/ CreateReviewReload(s)
        \/ UpdateReviewCheck(s)
        \/ UpdateReviewWrite(s)
        \/ UpdateReviewReload(s)
        \/ DeleteReviewCheck(s)
        \/ DeleteReviewWrite(s)
        \/ MarkHelpfulCheck(s)
        \/ MarkHelpfulWrite(s)
        \/ MarkHelpfulReload(s)
        \/ ReviewRequestEnds(s)

\* the listing of a movie's reviews beside the requests that add and remove
\* reviews
NextReviewListing ==
    \E s \in Slots :
        \/ CreateReviewCheck(s)
        \/ CreateReviewInsert(s)
        \/ CreateReviewReload(s)
        \/ DeleteReviewCheck(s)
        \/ DeleteReviewWrite(s)
        \/ MovieReviewsFirst(s)
        \/ MovieReviewsSecond(s)
        \/ ReviewRequestEnds(s)

-----------------------------------------------------------------------------
(* Watchlist ledger: the watchlists table, the Watchlist model class and   *)
(* the handlers of the watchlist router.                                    *)

\* most values the watchlists SERIAL hands out
MaxWatchlistSerial == 3

\* the snapshots a client sends as movieData (stored as JSONB)
Snapshots == { "{Title: Dune}", "{Title: Dune, Poster: p}" }

NoItem ==
    [ id |-> 0, user_id |-> 0, movie_id |-> NoValue, movie_source |-> NoValue,
      movie_data |-> NoValue ]

\* ON CONFLICT (user_id, movie_id, movie_source): does the new row conflict
watchlistConflictBroken(table, userId, movieId, movieSource) == FALSE

watchlistConflict(table, userId, movieId, movieSource) ==
    \E w \in table :
        /\ w.user_id = userId
        /\ w.movie_id = movieId
        /\ w.movie_source = movieSource

\* Watchlist.add: INSERT ... ON CONFLICT DO NOTHING RETURNING *.  The table
\* afterwards and rows[0], which is no row (NoItem) when nothing was
\* inserted; nothing is raised
Watchlist_add(table, serial, userId, movieId, movieSource, movieData) ==
    IF watchlistConflict(table, userId, movieId, movieSource)
    THEN [ table |-> table, item |-> NoItem ]
    ELSE LET row == [ id |-> serial, user_id |-> userId, movie_id |-> movieId,
                      movie_source |-> movieSource, movie_data |-> movieData ]
         IN  [ table |-> table \cup { row }, item |-> row ]

\* the rows of one user for one movie reference
watchlistMatch(table, userId, movieId, movieSource) ==
    { w \in table : /\ w.user_id = userId
                    /\ w.movie_id = movieId
                    /\ w.movie_source = movieSource }

\* Watchlist.isInWatchlist: result.rows.length > 0
Watchlist_isInWatchlist(table, userId, movieId, movieSource) ==
    watchlistMatch(table, userId, movieId, movieSource) # {}

\* the DELETE of remove without the origin in its WHERE clause
Watchlist_removeBroken(table, userId, movieId, movieSource) ==
    { w \in table : w.user_id = userId /\ w.movie_id = movieId }

\* Watchlist.remove: the rows DELETE ... RETURNING * returns
Watchlist_remove(table, userId, movieId, movieSource) ==
    watchlistMatch(table, userId, movieId, movieSource)

\* the DELETE of removeAll without its WHERE clause
Watchlist_removeAllBroken(table, userId) == table

\* Watchlist.removeAll: the rows DELETE ... WHERE user_id = $1 returns
Watchlist_removeAll(table, userId) == { w \in table : w.user_id = userId }

IdleWReq ==
    [ op |-> "idle", pc |-> "idle", user |-> 0,
      movieId |-> NoValue, movieSource |-> NoValue, movieData |-> NoValue,
      isAlreadyInWatchlist |-> FALSE,
      status |-> 0, item |-> NoItem, removedCount |-> 0,
      movies |-> << >>, watchlistStatus |-> {},
      limit |-> 0, popular |-> << >>,
      offset |-> 0, watchlist |-> << >>, totalCount |-> 0, hasMore |-> FALSE ]

WAnswer(req, code) == [ req EXCEPT !.pc = "done", !.status = code ]

IdleWatchlist ==
    /\ watchlists = {}
    /\ watchlistSeq = 0
    /\ wreq = [ s \in Slots |-> IdleWReq ]

\* POST /api/watchlist up to its first await, for a movieId out of ids (the
\* validation takes any text that is not empty, with either origin): the
\* pre-check Watchlist.isInWatchlist and the 409 it answers
AddWatchlistCheckOf(s, ids) ==
    /\ wreq[s].pc = "idle"
    /\ watchlistSeq < MaxWatchlistSerial
    /\ \E u \in Users, m \in ids, src \in MovieSources, d \in Snapshots :
          LET req == [ IdleWReq EXCEPT !.op = "add", !.user = u, !.movieId = m,
                                       !.movieSource = src, !.movieData = d ]
              isAlreadyInWatchlist == Watchlist_isInWatchlist(watchlists, u, m, src)
          IN  wreq' = [ wreq EXCEPT ![s] =
                          IF isAlreadyInWatchlist
                          THEN [ WAnswer(req, 409) EXCEPT !.isAlreadyInWatchlist = TRUE ]
                          ELSE [ req EXCEPT !.pc = "insert" ] ]
    /\ UNCHANGED << watchlists, watchlistSeq >>
    /\ UNCHANGED << identityVars, searchVars, reviewVars, movieVars, userVars, startupVars >>

AddWatchlistCheck(s) == AddWatchlistCheckOf(s, MovieIds)

\* the insert step as it would be without ON CONFLICT and without the 23505
\* catch: a conflicting insert raises and the handler answers 500
AddWatchlistInsertBroken(s) ==
    /\ wreq[s].op = "add"
    /\ wreq[s].pc = "insert"
    /\ watchlistSeq < MaxWatchlistSerial
    /\ watchlistSeq' = watchlistSeq + 1
    /\ LET req == wreq[s]
           added == Watchlist_add(watchlists, watchlistSeq + 1, req.user,
                                  req.movieId, req.movieSource, req.movieData)
       IN  /\ watchlists' = added.table
           /\ wreq' = [ wreq EXCEPT ![s] =
                          IF added.item = NoItem
                          THEN WAnswer(req, 500)
                          ELSE [ WAnswer(req, 201) EXCEPT !.item = added.item ] ]
    /\ UNCHANGED << identityVars, searchVars, reviewVars, movieVars, userVars, startupVars >>

\* Watchlist.add and the answer: 409 when it returned no row, else 201 with
\* the stored item.  The SERIAL value is drawn whether or not a row is stored
AddWatchlistInsert(s) ==
    /\ wreq[s].op = "add"
    /\ wreq[s].pc = "insert"
    /\ watchlistSeq < MaxWatchlistSerial
    /\ watchlistSeq' = watchlistSeq + 1
    /\ LET req == wreq[s]
           added == Watchlist_add(watchlists, watchlistSeq + 1, req.user,
                                  req.movieId, req.movieSource, req.movieData)
       IN  /\ watchlists' = added.table
           /\ wreq' = [ wreq EXCEPT ![s] =
                          IF added.item = NoItem
                          THEN WAnswer(req, 409)
                          ELSE [ WAnswer(req, 201) EXCEPT !.item = added.item ] ]
    /\ UNCHANGED << identityVars, searchVars, reviewVars, movieVars, userVars, startupVars >>

\* DELETE /api/watchlist/:movieId: Watchlist.remove and the answer
RemoveWatchlist(s) ==
    /\ wreq[s].pc = "idle"
    /\ \E u \in Users, m \in MovieIds, src \in MovieSources :
          LET req == [ IdleWReq EXCEPT !.op = "remove", !.user = u, !.movieId = m,
                                       !.movieSource = src ]
              removed == Watchlist_remove(watchlists, u, m, src)
          IN  /\ watchlists' = watchlists \ removed
              /\ wreq' = [ wreq EXCEPT ![s] =
                             IF removed = {} THEN WAnswer(req, 404)
                             ELSE WAnswer(req, 200) ]
    /\ UNCHANGED watchlistSeq
    /\ UNCHANGED << identityVars, searchVars, reviewVars, movieVars, userVars, startupVars >>

\* DELETE /api/watchlist: Watchlist.removeAll and the answer
ClearWatchlist(s) ==
    /\ wreq[s].pc = "idle"
    /\ \E u \in Users :
          LET req == [ IdleWReq EXCEPT !.op = "clear", !.user = u ]
              removedItems == Watchlist_removeAll(watchlists, u)
          IN  /\ watchlists' = watchlists \ removedItems
              /\ wreq' = [ wreq EXCEPT ![s] =
                             [ WAnswer(req, 200) EXCEPT
                                 !.removedCount = Cardinality(removedItems) ] ]
    /\ UNCHANGED watchlistSeq
    /\ UNCHANGED << identityVars, searchVars, reviewVars, movieVars, userVars, startupVars >>

\* Watchlist.findByUser: the user's rows, newest first, one page of them
Watchlist_findByUser(table, userId, limit, offset) ==
    limitOffset(newestFirst({ w \in table : w.user_id = userId }), limit, offset)

\* Watchlist.getUserWatchlistCount
Watchlist_getUserWatchlistCount(table, userId) ==
    Cardinality({ w \in table : w.user_id = userId })

\* the two queries GET /api/watchlist awaits together (Promise.all)
WatchlistQueryItems(req) ==
    [ req EXCEPT !.watchlist =
        Watchlist_findByUser(watchlists, req.user, req.limit, req.offset) ]

WatchlistQueryCount(req) ==
    [ req EXCEPT !.totalCount = Watchlist_getUserWatchlistCount(watchlists, req.user) ]

\* GET /api/watchlist: the first of the two queries to run
ListWatchlistFirst(s) ==
    /\ wreq[s].pc = "idle"
    /\ \E u \in Users, limit \in PageLimits, page \in PageNumbers,
          first \in { "items", "count" } :
          LET req == [ IdleWReq EXCEPT !.op = "list", !.user = u, !.limit = limit,
                                       !.offset = (page - 1) * limit ]
          IN  wreq' = [ wreq EXCEPT ![s] =
                          IF first = "items"
                          THEN [ WatchlistQueryItems(req) EXCEPT !.pc = "count" ]
                          ELSE [ WatchlistQueryCount(req) EXCEPT !.pc = "items" ] ]
    /\ UNCHANGED << watchlists, watchlistSeq >>
    /\ UNCHANGED << identityVars, searchVars, reviewVars, movieVars, userVars, startupVars >>

\* the second query and the answer, with
\* hasMore: offset + limitNum < totalCount
ListWatchlistSecond(s) ==
    /\ wreq[s].op = "list"
    /\ wreq[s].pc \in { "items", "count" }
    /\ LET req == IF wreq[s].pc = "items" THEN WatchlistQueryItems(wreq[s])
                  ELSE WatchlistQueryCount(wreq[s])
       IN  wreq' = [ wreq EXCEPT ![s] =
                       [ WAnswer(req, 200) EXCEPT
                           !.hasMore = req.offset + req.limit < req.totalCount ] ]
    /\ UNCHANGED << watchlists, watchlistSeq >>
    /\ UNCHANGED << identityVars, searchVars, reviewVars, movieVars, userVars, startupVars >>

\* the response has been sent: the slot takes the next request
WatchlistRequestEnds(s) ==
    /\ wreq[s].pc = "done"
    /\ wreq' = [ wreq EXCEPT ![s] = IdleWReq ]
    /\ UNCHANGED << watchlists, watchlistSeq >>
    /\ UNCHANGED << identityVars, searchVars, reviewVars, movieVars, userVars, startupVars >>

NextWatchlist ==
    \E s \in Slots :
        \/ AddWatchlistCheck(s)
        \/ AddWatchlistInsert(s)
        \/ RemoveWatchlist(s)
        \/ ClearWatchlist(s)
        \/ WatchlistRequestEnds(s)

-----------------------------------------------------------------------------
(* Local catalog and detail lookup: the movies table, the Movie model      *)
(* class, the provider's detail call and GET /api/movies/:id.               *)

\* most values the movies SERIAL hands out
MaxMovieSerial == 2

NoMovieRow ==
    [ id |-> 0, title |-> << >>, year |-> NULL, imdb_rating |-> NULL,
      cast_members |-> << >> ]

\* Movie.findById: SELECT * FROM movies WHERE id = $1, rows[0] || null
Movie_findById(table, id) ==
    LET rows == { m \in table : m.id = id }
    IN  IF rows = {} THEN NoMovieRow ELSE CHOOSE m \in rows : TRUE

\* the identifiers the provider has an entry for
OmdbCatalog == { << "t", "t", "1" >> }

NoMovie ==
    [ imdbID |-> << >>, Title |-> << >>, Year |-> << >>, Source |-> NoValue,
      Response |-> NoValue ]

\* what the call of the provider's detail page does for id: it rejects, the
\* provider answers with a status that is not OK, or it answers OK with its
\* entry (Response 'True') or with its error object (Response 'False')
DetailFetches(id) ==
    { [ outcome |-> o, body |-> NoMovie ] : o \in { "throws", "status" } }
      \cup { [ outcome |-> "json",
               body    |-> IF id \in OmdbCatalog
                           THEN [ imdbID |-> id, Title |-> Dune,
                                  Year |-> << "2", "0", "2", "1" >>,
                                  Source |-> NoValue, Response |-> "True" ]
                           ELSE [ NoMovie EXCEPT !.Response = "False" ] ] }

\* OMDBService.getMovieById: no key, a rejected call and a status that is
\* not OK return a Response 'False' object; a JSON body is returned as it is
OMDBService_getMovieById(e, fetched) ==
    IF ~ checkApiKey(e)
    THEN [ NoMovie EXCEPT !.Response = "False" ]
    ELSE IF fetched.outcome # "json"
    THEN [ NoMovie EXCEPT !.Response = "False" ]
    ELSE fetched.body

\* the references a detail request is sent with
DetailRefs ==
    { CustomPrefix \o numberToString(k) : k \in 1..(MaxMovieSerial + 1) }
        \cup { CustomPrefix, CustomPrefix \o << "a" >>, CustomPrefix \o CustomPrefix \o << "1" >>,
               << "x" >> \o CustomPrefix \o << "1" >>, << "1" >>,
               << "t", "t", "1" >>, << "t", "t", "0" >> }

\* req.body of a movie request: `defined` is the set of the properties it
\* has; a rating is held in tenths (DECIMAL(3,1))
MovieData(defined, title, year, imdbRating, cast) ==
    [ defined |-> defined, title |-> title, year |-> year,
      imdbRating |-> imdbRating, cast |-> cast ]

NoMovieData == MovieData({}, << >>, NULL, NULL, << >>)

IdleMReq ==
    [ op |-> "idle", pc |-> "idle", user |-> 0, ref |-> << >>,
      status |-> 0, movie |-> NoMovie, consulted |-> {}, fetched |-> "none",
      id |-> 0, body |-> NoMovieData ]

MAnswer(req, code) == [ req EXCEPT !.pc = "done", !.status = code ]

IdleMovies ==
    /\ movies = {}
    /\ movieSeq = 0
    /\ mreq = [ s \in Slots |-> IdleMReq ]

\* who sends a request: a user holding a valid token, or 0 for a caller
\* without one
Callers == Users \cup { 0 }

\* authenticateToken: does the request carry the token of a user
authenticateToken(caller) == caller \in Users

\* requireAdmin: is the authenticated user an administrator
requireAdmin(caller) == roleOf(caller) = "admin"

\* the middleware chain of the admin routes with requireAdmin left out
adminRouteGateBroken(caller) ==
    IF ~ authenticateToken(caller) THEN 401 ELSE 0

\* the middleware chain `authenticateToken, requireAdmin` of the admin
\* routes: the status it answers with, 0 when it lets the request through
\* to the handler
adminRouteGate(caller) ==
    IF ~ authenticateToken(caller) THEN 401
    ELSE IF ~ requireAdmin(caller) THEN 403
    ELSE 0

\* the bodies of a movie creation
MovieCreateBodies ==
    { MovieData({ "title" }, Dune, NULL, NULL, << >>),
      MovieData({ "title", "year", "imdbRating", "cast" }, Dune, 2021, 75, << "A" >>) }

\* the bodies of a movie update
MovieUpdateBodies ==
    { MovieData({ "title" }, toLowerCase(Dune), NULL, NULL, << >>),
      MovieData({ "title", "year" }, Dune, 2020, NULL, << >>),
      MovieData({ "title", "imdbRating", "cast" }, Dune, NULL, 0, << >>),
      MovieData({ "year" }, << >>, 2020, NULL, << >>) }

\* movieCreationValidation, which the update route runs as well: the title
\* is required
movieCreationValidation(movieData) == "title" \in movieData.defined

\* year ? parseInt(year) : null and imdbRating ? parseFloat(imdbRating) :
\* null: a property that is missing or 0 gives null
truthyOrNull(movieData, property) ==
    IF property \in movieData.defined /\ movieData[property] # 0
    THEN movieData[property]
    ELSE NULL

\* Movie.create: the row INSERT INTO movies stores
Movie_create(id, movieData) ==
    [ id |-> id,
      title |-> movieData.title,
      year |-> truthyOrNull(movieData, "year"),
      imdb_rating |-> truthyOrNull(movieData, "imdbRating"),
      cast_members |-> IF "cast" \in movieData.defined THEN movieData.cast ELSE << >> ]

\* Movie.update: the table after UPDATE ... SET column = COALESCE($n, column)
\* ... WHERE id = $14; the parameter of a missing property is null
Movie_update(table, id, movieData) ==
    { IF r.id = id
      THEN [ r EXCEPT
               !.title = IF "title" \in movieData.defined THEN movieData.title ELSE @,
               !.year = coalesceInt(truthyOrNull(movieData, "year"), @),
               !.imdb_rating = coalesceInt(truthyOrNull(movieData, "imdbRating"), @),
               !.cast_members = IF "cast" \in movieData.defined
                                THEN movieData.cast ELSE @ ]
      ELSE r : r \in table }

\* POST /api/movies: the middleware chain, Movie.create and the answer
CreateMovie(s) ==
    /\ mreq[s].pc = "idle"
    /\ movieSeq < MaxMovieSerial
    /\ \E u \in Callers, movieData \in MovieCreateBodies :
          LET req == [ IdleMReq EXCEPT !.op = "create", !.user = u, !.body = movieData ]
              newMovie == Movie_create(movieSeq + 1, movieData)
          IN  IF adminRouteGate(u) # 0
              THEN /\ mreq' = [ mreq EXCEPT ![s] = MAnswer(req, adminRouteGate(u)) ]
                   /\ UNCHANGED << movies, movieSeq >>
              ELSE /\ movieSeq' = movieSeq + 1
                   /\ movies' = movies \cup { newMovie }
                   /\ mreq' = [ mreq EXCEPT ![s] =
                                  [ MAnswer(req, 201) EXCEPT
                                      !.movie = transformToOMDBFormat(newMovie) ] ]
    /\ UNCHANGED << identityVars, searchVars, reviewVars, watchlistVars, userVars, startupVars >>

\* PUT /api/movies/admin/custom-movies/:id: the middleware chain, the
\* validation (400), Movie.update and the answer
UpdateMovie(s) ==
    /\ mreq[s].pc = "idle"
    /\ \E u \in Callers, id \in 1..MaxMovieSerial, movieData \in MovieUpdateBodies :
          LET req == [ IdleMReq EXCEPT !.op = "update", !.user = u, !.id = id,
                                       !.body = movieData ]
              updated == Movie_update(movies, id, movieData)
              updatedMovie == Movie_findById(updated, id)
          IN  IF adminRouteGate(u) # 0
              THEN /\ mreq' = [ mreq EXCEPT ![s] = MAnswer(req, adminRouteGate(u)) ]
                   /\ movies' = movies
              ELSE IF ~ movieCreationValidation(movieData)
              THEN /\ mreq' = [ mreq EXCEPT ![s] = MAnswer(req, 400) ]
                   /\ movies' = movies
              ELSE /\ movies' = updated
                   /\ mreq' = [ mreq EXCEPT ![s] =
                                  IF updatedMovie = NoMovieRow
                                  THEN MAnswer(req, 404)
                                  ELSE [ MAnswer(req, 200) EXCEPT
                                           !.movie = transformToOMDBFormat(updatedMovie) ] ]
    /\ UNCHANGED movieSeq
    /\ UNCHANGED << identityVars, searchVars, reviewVars, watchlistVars, userVars, startupVars >>

\* the delete as it would be with the reviews of the movie going with it
DeleteMovieBroken(s) ==
    /\ mreq[s].pc = "idle"
    /\ \E u \in Callers, id \in 1..MaxMovieSerial :
          LET req == [ IdleMReq EXCEPT !.op = "delete", !.user = u, !.id = id ]
          IN  IF adminRouteGate(u) # 0
              THEN /\ mreq' = [ mreq EXCEPT ![s] = MAnswer(req, adminRouteGate(u)) ]
                   /\ movies' = movies
              ELSE /\ movies' = { r \in movies : r.id # id }
                   /\ mreq' = [ mreq EXCEPT ![s] =
                                  MAnswer(req, IF Movie_findById(movies, id) = NoMovieRow
                                               THEN 404 ELSE 200) ]
    /\ reviews' = { r \in reviews :
                      \A q \in movies \ movies' :
                          ~ ( r.movie_source = "custom" /\ r.movie_id = encodeCustom(q.id) ) }
    /\ UNCHANGED << movieSeq, reviewSeq, rreq, statsOut >>
    /\ UNCHANGED << identityVars, searchVars, watchlistVars, userVars, startupVars >>

\* DELETE /api/movies/admin/custom-movies/:id: the middleware chain,
\* Movie.delete and the answer
DeleteMovie(s) ==
    /\ mreq[s].pc = "idle"
    /\ \E u \in Callers, id \in 1..MaxMovieSerial :
          LET req == [ IdleMReq EXCEPT !.op = "delete", !.user = u, !.id = id ]
          IN  IF adminRouteGate(u) # 0
              THEN /\ mreq' = [ mreq EXCEPT ![s] = MAnswer(req, adminRouteGate(u)) ]
                   /\ movies' = movies
              ELSE /\ movies' = { r \in movies : r.id # id }
                   /\ mreq' = [ mreq EXCEPT ![s] =
                                  MAnswer(req, IF Movie_findById(movies, id) = NoMovieRow
                                               THEN 404 ELSE 200) ]
    /\ UNCHANGED movieSeq
    /\ UNCHANGED << identityVars, searchVars, reviewVars, watchlistVars, userVars, startupVars >>

\* GET /api/movies/:id.  The custom branch awaits Movie.findById, which the
\* store rejects when the suffix is no integer (the catch answers 500); the
\* other branch awaits the provider.  `movie` is what the handler holds after
\* its branch; no movie or Response 'False' is answered 404, anything else is
\* tagged with its source and returned
GetMovieDetails(s) ==
    /\ mreq[s].pc = "idle"
    /\ \E id \in DetailRefs :
          LET req == [ IdleMReq EXCEPT !.op = "details", !.ref = id ]
              custom == startsWith(id, CustomPrefix)
              customId == replace(id, CustomPrefix, << >>)
          IN  IF custom
              THEN IF ~ pgInt4Accepts(customId)
                   THEN mreq' = [ mreq EXCEPT ![s] =
                                    [ MAnswer(req, 500) EXCEPT !.consulted = { "custom" } ] ]
                   ELSE LET customMovie == Movie_findById(movies, pgInt4In(customId))
                        IN  mreq' = [ mreq EXCEPT ![s] =
                              IF customMovie = NoMovieRow
                              THEN [ MAnswer(req, 404) EXCEPT !.consulted = { "custom" } ]
                              ELSE [ MAnswer(req, 200) EXCEPT
                                       !.consulted = { "custom" },
                                       !.movie = [ transformToOMDBFormat(customMovie)
                                                   EXCEPT !.Source = "custom" ] ] ]
              ELSE \E fetched \in DetailFetches(id) :
                      LET movie == OMDBService_getMovieById(env, fetched)
                      IN  mreq' = [ mreq EXCEPT ![s] =
                            IF movie.Response = "False"
                            THEN [ MAnswer(req, 404) EXCEPT
                                     !.consulted = { "omdb" },
                                     !.fetched = fetched.outcome ]
                            ELSE [ MAnswer(req, 200) EXCEPT
                                     !.consulted = { "omdb" },
                                     !.fetched = fetched.outcome,
                                     !.movie = [ movie EXCEPT !.Source = "omdb" ] ] ]
    /\ UNCHANGED << movies, movieSeq >>
    /\ UNCHANGED << identityVars, searchVars, reviewVars, watchlistVars, userVars, startupVars >>

\* the response has been sent: the slot takes the next request
MovieRequestEnds(s) ==
    /\ mreq[s].pc = "done"
    /\ mreq' = [ mreq EXCEPT ![s] = IdleMReq ]
    /\ UNCHANGED << movies, movieSeq >>
    /\ UNCHANGED << identityVars, searchVars, reviewVars, watchlistVars, userVars, startupVars >>

NextMovies ==
    \E s \in Slots :
        \/ CreateMovie(s)
        \/ UpdateMovie(s)
        \/ DeleteMovie(s)
        \/ GetMovieDetails(s)
        \/ MovieRequestEnds(s)

-----------------------------------------------------------------------------
(* Accounts: the users table, the User model class and the handlers of the *)
(* auth router.  bcrypt is a hash the password can be compared with.       *)

\* most values the users SERIAL hands out
MaxUserSerial == 4

AdminEmail == "admin@moviedb.com"
UserEmail == "user@moviedb.com"
\* the emails a request can bring
Emails == { UserEmail, "new@moviedb.com" }
\* the name and the password a request can bring
NewNames == { "Jane Doe" }
Passwords == { "user123" }

\* bcrypt.hash
hash(password) == << "hash", password >>

\* the rows initializeDatabase seeds: the administrator and a regular user
SeedUsers ==
    { [ id |-> 1, email |-> AdminEmail, password_hash |-> hash("admin123"),
        name |-> "Admin User", role |-> roleOf(1) ],
      [ id |-> 2, email |-> UserEmail, password_hash |-> hash("user123"),
        name |-> "John Doe", role |-> roleOf(2) ] }

NoUser ==
    [ id |-> 0, email |-> NoValue, password_hash |-> hash(NoValue),
      name |-> NoValue, role |-> NoValue ]

\* User.findByEmail: rows[0] || null
User_findByEmail(table, email) ==
    LET rows == { u \in table : u.email = email }
    IN  IF rows = {} THEN NoUser ELSE CHOOSE u \in rows : TRUE

\* User.findById
User_findById(table, id) ==
    LET rows == { u \in table : u.id = id }
    IN  IF rows = {} THEN NoUser ELSE CHOOSE u \in rows : TRUE

\* email VARCHAR(255) UNIQUE: would this email in the row of id break it
emailTaken(table, email, id) == \E u \in table : u.email = email /\ u.id # id

\* role CHECK (role IN ('user', 'admin'))
roleCheck(role) == role \in { "user", "admin" }

\* User.create: the table after INSERT INTO users ... VALUES ($1, $2, $3, $4)
User_create(table, id, email, password, name, role) ==
    table \cup { [ id |-> id, email |-> email, password_hash |-> hash(password),
                   name |-> name, role |-> role ] }

\* User.verifyPassword: bcrypt.compare
User_verifyPassword(plainPassword, hashedPassword) == hash(plainPassword) = hashedPassword

\* User.updatePassword: SET password_hash = $1 WHERE id = $2
User_updatePassword(table, userId, newPassword) ==
    { IF u.id = userId THEN [ u EXCEPT !.password_hash = hash(newPassword) ] ELSE u :
        u \in table }

\* User.update: SET email = COALESCE($1, email), name = COALESCE($2, name)
\* WHERE id = $3
User_updateBroken(table, userId, email, name) ==
    { IF u.id = userId
      THEN [ u EXCEPT !.email = coalesceText(email, @), !.name = coalesceText(name, @),
                      !.role = "user" ]
      ELSE u : u \in table }

User_update(table, userId, email, name) ==
    { IF u.id = userId
      THEN [ u EXCEPT !.email = coalesceText(email, @), !.name = coalesceText(name, @) ]
      ELSE u : u \in table }

IdleUReq ==
    [ op |-> "idle", pc |-> "idle", user |-> NoUser, email |-> NoValue,
      name |-> NoValue, password |-> NoValue, role |-> NoValue,
      status |-> 0, answeredRole |-> NoValue ]

UAnswer(req, code) == [ req EXCEPT !.pc = "done", !.status = code ]

IdleUsers ==
    /\ users = SeedUsers
    /\ userSeq = 2
    /\ ureq = [ s \in Slots |-> IdleUReq ]

\* POST /api/auth/register up to the insert: User.findByEmail, 409 for an
\* email that has an account
RegisterCheck(s) ==
    /\ ureq[s].pc = "idle"
    /\ \E email \in Emails, password \in Passwords, name \in NewNames,
          role \in { "admin", NoValue } :
          LET req == [ IdleUReq EXCEPT !.op = "register", !.email = email,
                                       !.password = password, !.name = name,
                                       !.role = role ]
          IN  ureq' = [ ureq EXCEPT ![s] =
                          IF User_findByEmail(users, email) # NoUser
                          THEN UAnswer(req, 409)
                          ELSE [ req EXCEPT !.pc = "insert" ] ]
    /\ UNCHANGED << users, userSeq >>
    /\ UNCHANGED << identityVars, searchVars, reviewVars, watchlistVars, movieVars, startupVars >>

\* POST /api/auth/register from the insert on: the role is 'admin' when the
\* body says so and 'user' otherwise; User.create takes the next value of
\* the SERIAL, and an email that got an account in the meantime breaks the
\* UNIQUE constraint (the catch answers 500)
RegisterInsert(s) ==
    /\ ureq[s].pc = "insert"
    /\ userSeq < MaxUserSerial
    /\ userSeq' = userSeq + 1
    /\ LET req == ureq[s]
           userRole == IF req.role = "admin" THEN "admin" ELSE "user"
       IN  IF emailTaken(users, req.email, 0) \/ ~ roleCheck(userRole)
           THEN /\ users' = users
                /\ ureq' = [ ureq EXCEPT ![s] = UAnswer(req, 500) ]
           ELSE /\ users' = User_create(users, userSeq + 1, req.email, req.password,
                                        req.name, userRole)
                /\ ureq' = [ ureq EXCEPT ![s] =
                               [ UAnswer(req, 201) EXCEPT !.answeredRole = userRole ] ]
    /\ UNCHANGED << identityVars, searchVars, reviewVars, watchlistVars, movieVars, startupVars >>

\* POST /api/auth/login: User.findByEmail, User.verifyPassword, the answer
\* with the role of the row
Login(s) ==
    /\ ureq[s].pc = "idle"
    /\ \E email \in Emails, password \in Passwords :
          LET req == [ IdleUReq EXCEPT !.op = "login", !.email = email,
                                       !.password = password ]
              user == User_findByEmail(users, email)
          IN  ureq' = [ ureq EXCEPT ![s] =
                          IF user = NoUser
                          THEN UAnswer(req, 401)
                          ELSE IF ~ User_verifyPassword(password, user.password_hash)
                          THEN UAnswer(req, 401)
                          ELSE [ UAnswer(req, 200) EXCEPT !.user = user,
                                                          !.answeredRole = user.role ] ]
    /\ UNCHANGED << users, userSeq >>
    /\ UNCHANGED << identityVars, searchVars, reviewVars, watchlistVars, movieVars, startupVars >>

\* PUT /api/auth/profile up to the update: req.user is the row of the token's
\* user; an email that differs from req.user.email and belongs to another
\* account is answered 409
UpdateProfileCheck(s) ==
    /\ ureq[s].pc = "idle"
    /\ \E caller \in users, email \in Emails \cup { NoValue },
          name \in NewNames \cup { NoValue } :
          LET req == [ IdleUReq EXCEPT !.op = "profile", !.user = caller,
                                       !.email = email, !.name = name ]
              existingUser == User_findByEmail(users, email)
          IN  ureq' = [ ureq EXCEPT ![s] =
                          IF /\ email # NoValue
                             /\ email # caller.email
                             /\ existingUser # NoUser
                             /\ existingUser.id # caller.id
                          THEN UAnswer(req, 409)
                          ELSE [ req EXCEPT !.pc = "write" ] ]
    /\ UNCHANGED << users, userSeq >>
    /\ UNCHANGED << identityVars, searchVars, reviewVars, watchlistVars, movieVars, startupVars >>

\* PUT /api/auth/profile from the update on: User.update and the answer with
\* the role of the returned row; an email taken in the meantime breaks the
\* UNIQUE constraint (the catch answers 500)
UpdateProfileWrite(s) ==
    /\ ureq[s].pc = "write"
    /\ LET req == ureq[s]
           updated == User_update(users, req.user.id, req.email, req.name)
           updatedUser == User_findById(updated, req.user.id)
       IN  IF req.email # NoValue /\ emailTaken(users, req.email, req.user.id)
           THEN /\ users' = users
                /\ ureq' = [ ureq EXCEPT ![s] = UAnswer(req, 500) ]
           ELSE /\ users' = updated
                /\ ureq' = [ ureq EXCEPT ![s] =
                               [ UAnswer(req, 200) EXCEPT
                                   !.answeredRole = updatedUser.role ] ]
    /\ UNCHANGED userSeq
    /\ UNCHANGED << identityVars, searchVars, reviewVars, watchlistVars, movieVars, startupVars >>

\* User.updatePassword called for an account
ChangePassword(s) ==
    /\ ureq[s].pc = "idle"
    /\ \E caller \in users, password \in Passwords :
          /\ users' = User_updatePassword(users, caller.id, password)
          /\ ureq' = [ ureq EXCEPT ![s] =
                         [ UAnswer(IdleUReq, 200) EXCEPT !.op = "password", !.user = caller,
                                                         !.password = password ] ]
    /\ UNCHANGED userSeq
    /\ UNCHANGED << identityVars, searchVars, reviewVars, watchlistVars, movieVars, startupVars >>

\* the response has been sent: the slot takes the next request
AuthRequestEnds(s) ==
    /\ ureq[s].pc = "done"
    /\ ureq' = [ ureq EXCEPT ![s] = IdleUReq ]
    /\ UNCHANGED << users, userSeq >>
    /\ UNCHANGED << identityVars, searchVars, reviewVars, watchlistVars, movieVars, startupVars >>

NextAuth ==
    \E s \in Slots :
        \/ RegisterCheck(s)
        \/ RegisterInsert(s)
        \/ Login(s)
        \/ UpdateProfileCheck(s)
        \/ UpdateProfileWrite(s)
        \/ ChangePassword(s)
        \/ AuthRequestEnds(s)

-----------------------------------------------------------------------------
(* Server start-up: the environment validation and the start of the HTTP   *)
(* server.                                                                  *)

\* REQUIRED_ENV_VARS
REQUIRED_ENV_VARS == { "JWT_SECRET", "OMDB_API_KEY" }

\* DATABASE_VARS
DATABASE_VARS == { "DB_HOST", "DB_PORT", "DB_NAME", "DB_USER", "DB_PASSWORD" }

\* the variables of process.env that the validation reads as required ones
EnvNames == REQUIRED_ENV_VARS \cup DATABASE_VARS \cup { "DATABASE_URL" }

\* validateEnvironment: the errors it collects; it throws when there is one
validationErrors(e) ==
    { << "Missing required environment variable", envVar >> :
        envVar \in { v \in REQUIRED_ENV_VARS : v \notin e } }
      \cup ( IF "DATABASE_URL" \notin e /\ ~ ( DATABASE_VARS \subseteq e )
             THEN { << "Database configuration missing", "DATABASE_URL" >> }
             ELSE {} )

\* the server module's first statements: validateEnvironment(), and
\* process.exit(1) when it throws
ValidateAtStartup ==
    /\ server = "starting"
    /\ server' = IF validationErrors(env) # {} THEN "exited" ELSE "validated"
    /\ UNCHANGED env
    /\ UNCHANGED << identityVars, searchVars, reviewVars, watchlistVars, movieVars, userVars >>

\* the rest of the module up to app.listen(PORT)
Listen ==
    /\ server = "validated"
    /\ server' = "listening"
    /\ UNCHANGED env
    /\ UNCHANGED << identityVars, searchVars, reviewVars, watchlistVars, movieVars, userVars >>

\* a server that serves requests: started with every variable set
ServerRunning ==
    /\ env = EnvNames
    /\ server = "listening"

-----------------------------------------------------------------------------
(* The statistics query on its own: getMovieStats applied to a reviews     *)
(* table drawn from the tables the ledger can hold.                         *)

\* most reviews of the movie whose statistics are taken
MaxStatReviews == 4

StatRatings == 1..10

\* rows of other movie references that the table may hold besides
OtherMovieRows ==
    { ReviewRow(MaxStatReviews + 1, 1, "tt1", "custom", "A", "ten chars.", 10),
      ReviewRow(MaxStatReviews + 2, 1, "tt2", "omdb", "A", "ten chars.", 1) }

\* the ratings of up to MaxStatReviews users, 0 for a user without a review.
\* The statistics query reads neither the user nor the key of a row, so the
\* ratings are taken in ascending order of the user: every multiset of
\* ratings is there once
StatRatingChoices ==
    { f \in [ 1..MaxStatReviews -> StatRatings \cup { 0 } ] :
        \A u \in 1..(MaxStatReviews - 1) : f[u] <= f[u + 1] }

\* reviews of ("tt1", "omdb") by some of the users 1..MaxStatReviews, one
\* each, with any of the other rows
StatTables ==
    { { ReviewRow(u, u, "tt1", "omdb", "A", "ten chars.", f[u]) :
            u \in { v \in 1..MaxStatReviews : f[v] # 0 } } \cup others :
        f \in StatRatingChoices,
        others \in SUBSET OtherMovieRows }

StatKeys == { << "tt1", "omdb" >>, << "tt1", "custom" >>, << "tt2", "omdb" >> }

InitStats ==
    /\ IdleIdentity /\ IdleSearch /\ IdleWatchlist /\ IdleMovies /\ IdleUsers
    /\ ServerRunning
    /\ reviews \in StatTables
    /\ reviewSeq = MaxStatReviews + 2
    /\ rreq = [ s \in Slots |-> IdleReq ]
    /\ statsOut = NoStatsCall

\* a call of Review.getMovieStats
GetMovieStats ==
    /\ statsOut = NoStatsCall
    /\ \E k \in StatKeys :
          statsOut' =
            [ movieId |-> k[1], movieSource |-> k[2],
              stats |-> IF getMovieStatsThrows(reviews, k[1], k[2])
                        THEN [ NoStats EXCEPT !.outcome = "error" ]
                        ELSE Review_getMovieStats(reviews, k[1], k[2]) ]
    /\ UNCHANGED << reviews, reviewSeq, rreq >>
    /\ UNCHANGED << identityVars, searchVars, watchlistVars, movieVars, userVars, startupVars >>

-----------------------------------------------------------------------------
(* Specifications.                                                         *)

InitLedgers ==
    /\ IdleIdentity /\ IdleSearch /\ IdleReviews /\ IdleWatchlist /\ IdleMovies /\ IdleUsers
    /\ ServerRunning

InitIdentity ==
    /\ IdentityInputs /\ IdleSearch /\ IdleReviews /\ IdleWatchlist /\ IdleMovies /\ IdleUsers
    /\ ServerRunning

NextIdentity == EncodeReference \/ DecodeReference

SpecIdentity == InitIdentity /\ [][NextIdentity]_vars

InitSearch ==
    /\ IdleIdentity /\ SearchInputs /\ IdleReviews /\ IdleWatchlist /\ IdleMovies /\ IdleUsers
    /\ ServerRunning

SpecSearch == InitSearch /\ [][SearchMovies]_vars

SpecStats == InitStats /\ [][GetMovieStats]_vars

SpecReviews == InitLedgers /\ [][NextReviews]_vars

SpecReviewListing == InitLedgers /\ [][NextReviewListing]_vars

SpecWatchlist == InitLedgers /\ [][NextWatchlist]_vars

SpecMovies == InitLedgers /\ [][NextMovies]_vars

-----------------------------------------------------------------------------
(* The batched membership check: Watchlist.checkMultipleInWatchlist and    *)
(* POST /api/watchlist/check-multiple, applied to a watchlists table whose *)
(* movie identifiers are character sequences, as the keys of the lookup    *)
(* are built from them.                                                    *)

\* most references in one check-multiple request
MaxCheckList == 2

\* most rows of the watchlists table the check runs against
MaxCheckRows == 2

\* the characters of a movie_source inside a template literal
sourceText(movieSource) ==
    IF movieSource = "custom" THEN << "c", "u", "s", "t", "o", "m" >>
    ELSE << "o", "m", "d", "b" >>

\* movie identifiers of the rows and of the queries: "a" and "a_omdb"
CheckIds == { << "a" >>, << "a", "_" >> \o sourceText("omdb") }

\* the rows the table is drawn from, one per (user, identifier, origin),
\* each with a key of its own
CheckRows ==
    { [ id |-> 4 * (u - 1) + 2 * (Len(m) \div 6) + (IF src = "omdb" THEN 1 ELSE 2),
        user_id |-> u, movie_id |-> m, movie_source |-> src,
        movie_data |-> NoValue ] :
        u \in Users, m \in CheckIds, src \in MovieSources }

CheckTables == { t \in SUBSET CheckRows : Cardinality(t) <= MaxCheckRows }

\* the movies arrays of a request: movieSource may be left out
CheckLists ==
    SeqsUpTo([ movieId : CheckIds, movieSource : MovieSources \cup { NoValue } ],
             MaxCheckList) \ { << >> }

\* the key of a row in the lookup: `${row.movie_id}_${row.movie_source}`
lookupKey(row) == row.movie_id \o << "_" >> \o sourceText(row.movie_source)

\* the query of checkMultipleInWatchlist without its user_id condition
checkMultipleInWatchlistBroken(table, userId, movieList) ==
    { lookupKey(w) : w \in
        { w \in table :
            \E i \in 1..Len(movieList) :
                /\ w.movie_id = movieList[i].movieId
                /\ w.movie_source = coalesceText(movieList[i].movieSource, "omdb") } }

\* Watchlist.checkMultipleInWatchlist: the keys the lookup holds (each with
\* the value true)
checkMultipleInWatchlist(table, userId, movieList) ==
    IF Len(movieList) = 0 THEN {}
    ELSE { lookupKey(w) : w \in
            { w \in table :
                /\ w.user_id = userId
                /\ \E i \in 1..Len(movieList) :
                      /\ w.movie_id = movieList[i].movieId
                      /\ w.movie_source = coalesceText(movieList[i].movieSource, "omdb") } }

\* a table and a check-multiple request of some user waiting in slot 1
InitCheckMultiple ==
    /\ IdleIdentity /\ IdleSearch /\ IdleReviews /\ IdleMovies /\ IdleUsers
    /\ ServerRunning
    /\ watchlists \in CheckTables
    /\ watchlistSeq = 4 * NUsers
    /\ \E u \in Users, list \in CheckLists :
          wreq = [ s \in Slots |->
                     IF s = 1
                     THEN [ IdleWReq EXCEPT !.op = "check-multiple", !.pc = "query",
                                            !.user = u, !.movies = list ]
                     ELSE IdleWReq ]

\* POST /api/watchlist/check-multiple: the query and the answer
CheckMultiple(s) ==
    /\ wreq[s].op = "check-multiple"
    /\ wreq[s].pc = "query"
    /\ LET req == wreq[s]
           watchlistLookup == checkMultipleInWatchlist(watchlists, req.user, req.movies)
       IN  wreq' = [ wreq EXCEPT ![s] =
                       [ WAnswer(req, 200) EXCEPT !.watchlistStatus = watchlistLookup ] ]
    /\ UNCHANGED << watchlists, watchlistSeq >>
    /\ UNCHANGED << identityVars, searchVars, reviewVars, movieVars, userVars, startupVars >>

NextCheckMultiple == \E s \in Slots : CheckMultiple(s)

SpecCheckMultiple == InitCheckMultiple /\ [][NextCheckMultiple]_vars

\* the process is started with any of the variables set or missing
InitStartup ==
    /\ IdleIdentity /\ IdleSearch /\ IdleReviews /\ IdleWatchlist /\ IdleMovies /\ IdleUsers
    /\ env \in SUBSET EnvNames
    /\ server = "starting"

NextStartup == ValidateAtStartup \/ Listen

SpecStartup == InitStartup /\ [][NextStartup]_vars

\* the provider's gateway under every outcome of its call, with and without
\* the key: one search and one detail request.  The server has
\* started; the server module that does not validate the environment starts
\* without the key too
InitGateway ==
    /\ IdleIdentity /\ IdleReviews /\ IdleWatchlist /\ IdleMovies /\ IdleUsers
    /\ omdbFetch \in SearchFetches
    /\ omdbResults = NoAnswer
    /\ customResults \in CustomAnswers
    /\ searchResponse = NoResponse
    /\ env \in { EnvNames, EnvNames \ { "OMDB_API_KEY" } }
    /\ server = "listening"

NextGateway ==
    \/ OMDBSearch
    \/ SearchMovies
    \/ GetMovieDetails(1)

SpecGateway == InitGateway /\ [][NextGateway]_vars

\* the auth router and User.updatePassword over the seeded accounts
InitAuth ==
    /\ IdleIdentity /\ IdleSearch /\ IdleReviews /\ IdleWatchlist /\ IdleMovies
    /\ IdleUsers
    /\ ServerRunning

SpecAuth == InitAuth /\ [][NextAuth]_vars

\* registrations only, two at a time
NextRegister ==
    \E s \in Slots :
        \/ RegisterCheck(s)
        \/ RegisterInsert(s)
        \/ AuthRequestEnds(s)

SpecRegister == InitAuth /\ [][NextRegister]_vars

-----------------------------------------------------------------------------
(* Votes on stored reviews: each slot serves one helpful request and keeps *)
(* it, so the slots past their write are the votes cast.                   *)

\* one review of each user, as two accepted POST /api/reviews leave them
VotedReviews ==
    { ReviewRow(u, u, "tt1", "omdb", "A", "ten chars.", 7) : u \in Users }

InitHelpful ==
    /\ IdleIdentity /\ IdleSearch /\ IdleWatchlist /\ IdleMovies /\ IdleUsers
    /\ ServerRunning
    /\ reviews = VotedReviews
    /\ reviewSeq = NUsers
    /\ rreq = [ s \in Slots |-> IdleReq ]
    /\ statsOut = NoStatsCall

NextHelpful ==
    \E s \in Slots :
        \/ MarkHelpfulCheck(s)
        \/ MarkHelpfulWriteUpTo(s, NReq)
        \/ MarkHelpfulReload(s)

SpecHelpful == InitHelpful /\ [][NextHelpful]_vars

-----------------------------------------------------------------------------
(* The paginated review listings beside the requests that add reviews.     *)

NextPagination ==
    \E s \in Slots :
        \/ CreateReviewCheck(s)
        \/ CreateReviewInsert(s)
        \/ CreateReviewReload(s)
        \/ MovieReviewsFirst(s)
        \/ MovieReviewsSecond(s)
        \/ UserReviews(s)
        \/ ReviewRequestEnds(s)

SpecPagination == InitLedgers /\ [][NextPagination]_vars

-----------------------------------------------------------------------------
(* Deleting local movies that reviews and watchlist entries refer to: the  *)
(* catalog holds the movies 1..MaxMovieSerial, and user 1 has reviewed each *)
(* of them and put each on the watchlist under its encoded reference.       *)

InitReferenced ==
    /\ IdleIdentity /\ IdleSearch /\ IdleUsers
    /\ ServerRunning
    /\ movies = { Movie_create(k, MovieData({ "title" }, Dune, NULL, NULL, << >>)) :
                    k \in 1..MaxMovieSerial }
    /\ movieSeq = MaxMovieSerial
    /\ mreq = [ s \in Slots |-> IdleMReq ]
    /\ reviews = { ReviewRow(k, 1, encodeCustom(k), "custom", "A", "ten chars.", 7) :
                     k \in 1..MaxMovieSerial }
    /\ reviewSeq = MaxMovieSerial
    /\ rreq = [ s \in Slots |-> IdleReq ]
    /\ statsOut = NoStatsCall
    /\ watchlists = { [ id |-> k, user_id |-> 1, movie_id |-> encodeCustom(k),
                        movie_source |-> "custom", movie_data |-> "{Title: Dune}" ] :
                        k \in 1..MaxMovieSerial }
    /\ watchlistSeq = MaxMovieSerial
    /\ wreq = [ s \in Slots |-> IdleWReq ]

\* slot 1 deletes and lists, slot 2 asks for details
NextReferenced ==
    \/ DeleteMovie(1)
    \/ GetMovieDetails(2)
    \/ \E s \in { 1, 2 } : MovieRequestEnds(s)
    \/ ListWatchlistFirst(1)
    \/ ListWatchlistSecond(1)
    \/ WatchlistRequestEnds(1)
    \/ UserReviews(1)
    \/ ReviewRequestEnds(1)

SpecReferenced == InitReferenced /\ [][NextReferenced]_vars

-----------------------------------------------------------------------------
(* Adds whose movie identifiers are character sequences: the local movie 1 *)
(* as the client can name it, by its key and by its encoded reference.      *)

ReferenceIds == { << "1" >>, encodeCustom(1) }

NextSameMovie ==
    \E s \in Slots :
        \/ AddWatchlistCheckOf(s, ReferenceIds)
        \/ AddWatchlistInsert(s)
        \/ WatchlistRequestEnds(s)

SpecSameMovie == InitLedgers /\ [][NextSameMovie]_vars

-----------------------------------------------------------------------------
(* The popularity listing: Watchlist.getPopularMovies and                  *)
(* GET /api/watchlist/popular, applied to a watchlists table drawn from    *)
(* the tables the ledger can hold.                                         *)

\* the rows the table is drawn from
PopularRows ==
    { [ id |-> 2 * (u - 1) + (IF src = "omdb" THEN 1 ELSE 2),
        user_id |-> u, movie_id |-> m, movie_source |-> src, movie_data |-> d ] :
        u \in Users, m \in MovieIds, src \in MovieSources, d \in Snapshots }

\* the tables UNIQUE(user_id, movie_id, movie_source) allows
PopularTables ==
    { t \in SUBSET PopularRows :
        \A v, w \in t :
            ( v.user_id = w.user_id /\ v.movie_id = w.movie_id
              /\ v.movie_source = w.movie_source ) => v = w }

\* the limits a request is sent with (10 when it has none)
PopularLimits == { 1, 2, 10 }

\* GROUP BY movie_id, movie_source, movie_data
popularKeyBroken(w) == << w.movie_id, w.movie_source, NoValue >>

popularKey(w) == << w.movie_id, w.movie_source, w.movie_data >>

\* the rows of the grouped query before ORDER BY and LIMIT; COUNT(*) comes
\* back as the decimal text of a bigint
popularGroups(table) ==
    { [ movie_id |-> k[1], movie_source |-> k[2], movie_data |-> k[3],
        watchlist_count |->
            numberToString(Cardinality({ w \in table : popularKey(w) = k })) ] :
        k \in { popularKey(w) : w \in table } }

\* Watchlist.getPopularMovies: the row lists the query can return.  ORDER BY
\* watchlist_count DESC leaves the order of groups of equal size open, and
\* LIMIT cuts the list after that order
Watchlist_getPopularMovies(table, limit) ==
    LET groups == popularGroups(table)
        n == IF limit < Cardinality(groups) THEN limit ELSE Cardinality(groups)
        count(g) == decimalValue(g.watchlist_count)
    IN  { rows \in [ 1..n -> groups ] :
            /\ \A i, j \in 1..n : rows[i] = rows[j] => i = j
            /\ \A i, j \in 1..n : i < j => count(rows[i]) >= count(rows[j])
            /\ \A g \in groups :
                  ( \A i \in 1..n : rows[i] # g ) =>
                      \A i \in 1..n : count(rows[i]) >= count(g) }

\* a table and a popularity request waiting in slot 1
InitPopular ==
    /\ IdleIdentity /\ IdleSearch /\ IdleReviews /\ IdleMovies /\ IdleUsers
    /\ ServerRunning
    /\ watchlists \in PopularTables
    /\ watchlistSeq = 2 * NUsers
    /\ \E limit \in PopularLimits :
          wreq = [ s \in Slots |->
                     IF s = 1
                     THEN [ IdleWReq EXCEPT !.op = "popular", !.pc = "query",
                                            !.limit = limit ]
                     ELSE IdleWReq ]

\* GET /api/watchlist/popular: the query and the answer.  The handler runs
\* JSON.parse on the movie_data of every row; the driver hands a JSONB value
\* over as an object, JSON.parse throws on it and the catch answers 500, so
\* only an empty list is answered 200
PopularMovies(s) ==
    /\ wreq[s].op = "popular"
    /\ wreq[s].pc = "query"
    /\ \E popularMovies \in Watchlist_getPopularMovies(watchlists, wreq[s].limit) :
          wreq' = [ wreq EXCEPT ![s] =
                      [ WAnswer(wreq[s], IF Len(popularMovies) = 0 THEN 200 ELSE 500)
                          EXCEPT !.popular = popularMovies ] ]
    /\ UNCHANGED << watchlists, watchlistSeq >>
    /\ UNCHANGED << identityVars, searchVars, reviewVars, movieVars, userVars, startupVars >>

NextPopular == \E s \in Slots : PopularMovies(s)

SpecPopular == InitPopular /\ [][NextPopular]_vars

-----------------------------------------------------------------------------
(* Properties.                                                             *)

\* C9: the reference encoding round-trips and decoding is total.  Once a
\* valid (origin, rawId) has been encoded and the reference decoded again,
\* the decoded origin is the encoded one and the decoded identifier names
\* the same entry: for a local key k the reference is 'custom_' followed by
\* the digits of k and the decoded suffix is a text the store reads back as
\* k; a provider identifier is used verbatim.  Every decoded reference is
\* local with rawId its suffix when it starts with 'custom_', and external
\* and unchanged otherwise.
C9_RoundTripAndTotal ==
    /\ idDecoded # NoDecoded =>
          /\ idDecoded.movieSource \in { "custom", "omdb" }
          /\ idDecoded.movieSource = "custom" <=> startsWith(idRef, CustomPrefix)
          /\ idDecoded.movieSource = "custom" => CustomPrefix \o idDecoded.rawId = idRef
          /\ idDecoded.movieSource = "omdb" => idDecoded.rawId = idRef
    /\ (idPair # NoPair /\ idRef # << >>) =>
          IF idPair.origin = "custom"
          THEN idRef = CustomPrefix \o numberToString(idPair.key)
          ELSE idRef = idPair.id
    /\ (idPair # NoPair /\ idDecoded # NoDecoded) =>
          /\ idDecoded.movieSource = idPair.origin
          /\ IF idPair.origin = "custom"
             THEN /\ pgInt4Accepts(idDecoded.rawId)
                  /\ pgInt4In(idDecoded.rawId) = idPair.key
             ELSE idDecoded.rawId = idPair.id

\* a two-digit local key has gone through encoding and decoding
C9_Witness ==
    /\ idPair.origin = "custom"
    /\ idPair.key >= 10
    /\ idDecoded.movieSource = "custom"
    /\ idDecoded.rawId = << "1", "2" >>

\* two entries count as duplicates: titles equal ignoring case, year strings equal
Duplicates(a, b) ==
    /\ toLowerCase(a.Title) = toLowerCase(b.Title)
    /\ a.Year = b.Year

\* the n-th smallest member of a set of indices
NthOf(indices, n) ==
    CHOOSE i \in indices : Cardinality({ j \in indices : j <= i }) = n

\* C8: the Search list of the combined search is the provider's entries
\* followed by the reformatted local rows with exactly those entries removed
\* that duplicate an earlier one (same title ignoring case, same year
\* string): the kept entries are in their original order, no two of them are
\* duplicates, and the first of every group of duplicates is kept.
C8_Deduplicated ==
    searchResponse # NoResponse =>
        LET combined == omdbResults.Search \o
                          [ i \in 1..Len(customResults) |->
                              transformToOMDBFormat(customResults[i]) ]
            firsts == { i \in 1..Len(combined) :
                          \A j \in 1..(i - 1) : ~ Duplicates(combined[j], combined[i]) }
            out == searchResponse.Search
        IN  /\ Len(out) = Cardinality(firsts)
            /\ \A n \in 1..Len(out) : out[n] = combined[NthOf(firsts, n)]
            /\ \A a, b \in 1..Len(out) : a < b => ~ Duplicates(out[a], out[b])

\* the provider's "Dune" of "2021" and the local "dune" of 2021 were merged
\* into the one provider entry
C8_Witness ==
    /\ Len(omdbResults.Search) = 1
    /\ omdbResults.Search[1].Title = Dune
    /\ omdbResults.Search[1].Year = << "2", "0", "2", "1" >>
    /\ Len(customResults) = 1
    /\ customResults[1].title = toLowerCase(Dune)
    /\ customResults[1].year = 2021
    /\ searchResponse # NoResponse
    /\ searchResponse.Search = omdbResults.Search

\* C7: for a movie reference with at least one review, getMovieStats reports
\* the number of reviews whose movie identifier and origin both match, their
\* mean rating as the nearest number with one decimal, and the share of them
\* rated 7 or more as the nearest whole percentage; ratings 7, 8, 9, 2 give
\* 4, "6.5" and 75.
C7_StatsOfReviews ==
    statsOut.stats.outcome = "ok" =>
        LET rows == { r \in reviews : /\ r.movie_id = statsOut.movieId
                                      /\ r.movie_source = statsOut.movieSource }
            n == Cardinality(rows)
            total == sumRatings(rows)
            good == Cardinality({ r \in rows : r.rating >= 7 })
            stats == statsOut.stats
        IN  /\ n > 0
            /\ stats.totalReviews = n
            /\ \E t \in 10..100 :
                  /\ stats.averageRating =
                        numberToString(t \div 10) \o << "." >> \o numberToString(t % 10)
                  /\ 2 * (n * t - 10 * total) <= n
                  /\ 2 * (10 * total - n * t) < n
            /\ \E p \in 0..100 :
                  /\ stats.recommendationPercentage = p
                  /\ 2 * (n * p - 100 * good) <= n
                  /\ 2 * (100 * good - n * p) < n
            /\ ({ r.rating : r \in rows } = { 2, 7, 8, 9 } /\ n = 4) =>
                  /\ stats.averageRating = << "6", ".", "5" >>
                  /\ stats.recommendationPercentage = 75

\* the statistics of four reviews rated 7, 8, 9 and 2, taken beside a review
\* of the same identifier under the other origin
C7_Witness ==
    /\ statsOut.movieId = "tt1"
    /\ statsOut.movieSource = "omdb"
    /\ \E r \in reviews : r.movie_id = "tt1" /\ r.movie_source = "custom"
    /\ { r.rating : r \in { q \in reviews : q.movie_source = "omdb" /\ q.movie_id = "tt1" } }
         = { 2, 7, 8, 9 }
    /\ statsOut.stats.totalReviews = 4
    /\ statsOut.stats.averageRating = << "6", ".", "5" >>
    /\ statsOut.stats.recommendationPercentage = 75

\* the reviews of one user for one movie reference
ReviewsOf(table, userId, movieId, movieSource) ==
    { r \in table : /\ r.user_id = userId
                    /\ r.movie_id = movieId
                    /\ r.movie_source = movieSource }

\* C1: in every reachable state of the review ledger, whatever create,
\* update, delete and markHelpful requests have run and however their steps
\* interleaved, no two reviews have the same user, movie identifier and
\* origin.
C1_OneReviewPerTriple ==
    \A r1, r2 \in reviews :
        ( /\ r1.user_id = r2.user_id
          /\ r1.movie_id = r2.movie_id
          /\ r1.movie_source = r2.movie_source ) => r1 = r2

\* a create got past the pre-check, had its insert rejected by the store,
\* and the review that beat it is the only one of its triple
C1_Witness ==
    \E s \in Slots :
        /\ rreq[s].op = "create"
        /\ rreq[s].pc = "done"
        /\ rreq[s].id = 0
        /\ rreq[s].status = 500
        /\ Cardinality(ReviewsOf(reviews, rreq[s].user, rreq[s].movieId,
                                 rreq[s].movieSource)) = 1

\* C2: a create sent by a user who already has a review of the same movie
\* identifier and origin is answered 409 at once; no row is inserted (the
\* table and the serial are as before), so the existing review is unchanged
\* and is the only one of that user for that reference.
C2_SecondCreateConflicts ==
    [][ \A s \in Slots :
          ( /\ rreq[s].pc = "idle"
            /\ rreq'[s].op = "create"
            /\ ReviewsOf(reviews, rreq'[s].user, rreq'[s].movieId,
                         rreq'[s].movieSource) # {} )
          => /\ rreq'[s].pc = "done"
             /\ rreq'[s].status = 409
             /\ rreq'[s].id = 0
             /\ reviews' = reviews
             /\ reviewSeq' = reviewSeq
             /\ Cardinality(ReviewsOf(reviews', rreq'[s].user, rreq'[s].movieId,
                                      rreq'[s].movieSource)) = 1 ]_vars

\* a create was answered 409 while the user's earlier review is in the table
C2_Witness ==
    \E s \in Slots :
        /\ rreq[s].op = "create"
        /\ rreq[s].pc = "done"
        /\ rreq[s].status = 409
        /\ \E r \in reviews : /\ r.user_id = rreq[s].user
                              /\ r.movie_id = rreq[s].movieId
                              /\ r.movie_source = rreq[s].movieSource
                              /\ r.id = 1

\* C3: a create that passed the pre-check and whose insert the store then
\* rejected for uniqueness (it never got a row: id 0) is answered with the
\* already-exists outcome 409, never with 500.
C3_LoserGetsConflict ==
    \A s \in Slots :
        ( /\ rreq[s].op = "create"
          /\ rreq[s].pc = "done"
          /\ rreq[s].id = 0 ) => rreq[s].status = 409

\* C6: while the reviews table has never held a row, a listing of a movie's
\* reviews succeeds (200) with an empty page and the statistics 0, "0.0", 0.
C6_EmptyStats ==
    \A s \in Slots :
        ( /\ rreq[s].op = "list"
          /\ rreq[s].pc = "done"
          /\ reviewSeq = 0 )
        => /\ rreq[s].status = 200
           /\ rreq[s].page = << >>
           /\ rreq[s].stats.outcome = "ok"
           /\ rreq[s].stats.totalReviews = 0
           /\ rreq[s].stats.averageRating = << "0", ".", "0" >>
           /\ rreq[s].stats.recommendationPercentage = 0

\* the watchlist entries of one user for one movie reference
EntriesOf(table, userId, movieId, movieSource) ==
    { w \in table : /\ w.user_id = userId
                    /\ w.movie_id = movieId
                    /\ w.movie_source = movieSource }

\* C4: an add that finds an entry of its user and movie reference in the
\* store, in the pre-check or at the insert, leaves the store as it was: the
\* insert returns no row, the request is answered 409 and not with an error,
\* the entry with its snapshot stays, and it is the only entry of that user
\* for that reference.
C4_AddExistingIsNoOp ==
    [][ \A s \in Slots :
          ( /\ wreq[s].pc # "done"
            /\ wreq'[s].op = "add"
            /\ wreq'[s].pc = "done"
            /\ EntriesOf(watchlists, wreq'[s].user, wreq'[s].movieId,
                         wreq'[s].movieSource) # {} )
          => /\ watchlists' = watchlists
             /\ wreq'[s].item = NoItem
             /\ wreq'[s].status = 409
             /\ Cardinality(EntriesOf(watchlists', wreq'[s].user, wreq'[s].movieId,
                                      wreq'[s].movieSource)) = 1 ]_vars

\* an add passed the pre-check, found the entry at the insert and was
\* answered 409 with the entry still in the store
C4_Witness ==
    \E s \in Slots :
        /\ wreq[s].op = "add"
        /\ wreq[s].pc = "done"
        /\ wreq[s].isAlreadyInWatchlist = FALSE
        /\ wreq[s].status = 409
        /\ wreq[s].item = NoItem
        /\ \E w \in watchlists : /\ w.user_id = wreq[s].user
                                 /\ w.movie_id = wreq[s].movieId
                                 /\ w.movie_source = wreq[s].movieSource
                                 /\ w.movie_data # wreq[s].movieData

\* two adds of the same user and movie reference, both past the pre-check
Racing(q, r) ==
    /\ q.op = "add" /\ r.op = "add"
    /\ ~ q.isAlreadyInWatchlist /\ ~ r.isAlreadyInWatchlist
    /\ q.user = r.user /\ q.movieId = r.movieId /\ q.movieSource = r.movieSource

\* C5: of two adds of the same user and movie reference that both passed
\* the pre-check, the one whose insert reaches the store first is answered
\* 201 with the stored entry and the one that finds that entry is answered
\* 409; neither is answered with an error, and after either insert exactly
\* one entry of that user for that reference exists.
C5_ConcurrentAdds ==
    [][ \A s \in Slots :
          ( /\ wreq[s].op = "add"
            /\ wreq[s].pc = "insert"
            /\ wreq'[s].pc = "done" )
          => LET before == EntriesOf(watchlists, wreq[s].user, wreq[s].movieId,
                                     wreq[s].movieSource)
                 after == EntriesOf(watchlists', wreq[s].user, wreq[s].movieId,
                                    wreq[s].movieSource)
             IN  /\ wreq'[s].status \in { 201, 409 }
                 /\ wreq'[s].status = 201 <=> before = {}
                 /\ wreq'[s].status = 201 =>
                       /\ after = { wreq'[s].item }
                       /\ wreq'[s].item.movie_data = wreq[s].movieData
                 /\ wreq'[s].status = 409 => watchlists' = watchlists
                 /\ Cardinality(after) = 1
                 /\ \A t \in Slots \ { s } :
                       ( /\ Racing(wreq[s], wreq[t])
                         /\ wreq[t].pc = "done"
                         /\ wreq[t].status = 201
                         /\ wreq[t].item \in watchlists )
                       => /\ wreq'[s].status = 409
                          /\ after = { wreq[t].item } ]_vars

\* two racing adds have both answered, one 201 and one 409, and the store
\* holds the winner's entry alone
C5_Witness ==
    \E s, t \in Slots :
        /\ s # t
        /\ Racing(wreq[s], wreq[t])
        /\ wreq[s].pc = "done" /\ wreq[t].pc = "done"
        /\ wreq[s].status = 201
        /\ wreq[t].status = 409
        /\ EntriesOf(watchlists, wreq[s].user, wreq[s].movieId, wreq[s].movieSource)
             = { wreq[s].item }

\* C10: a detail request consults one source, the local store for a
\* reference that starts with 'custom_' and the provider for any other; an
\* entry found is returned tagged with that source, and a reference that
\* names no entry of its branch is answered 404.
C10_OneSourceUniformNotFound ==
    \A s \in Slots :
        ( mreq[s].op = "details" /\ mreq[s].pc = "done" )
        => LET branch == IF startsWith(mreq[s].ref, CustomPrefix)
                         THEN "custom" ELSE "omdb"
           IN  /\ mreq[s].consulted = { branch }
               /\ mreq[s].status \in { 200, 404 }
               /\ mreq[s].status = 200 => mreq[s].movie.Source = branch
               /\ mreq[s].status = 404 => mreq[s].movie = NoMovie

\* the slots whose helpful handler runs Review.markHelpful on review id in
\* the step
VotingOn(id) ==
    { s \in Slots : /\ rreq[s].op = "helpful"
                    /\ rreq[s].pc = "write"
                    /\ rreq'[s].pc # "write"
                    /\ rreq[s].id = id }

\* C11: a step that runs markHelpful(id, isHelpful) raises the review's
\* total_votes by exactly 1 and its helpful_count by 1 when isHelpful is
\* true and by 0 otherwise; every other step (a review update included)
\* leaves the counters of every review that stays as they were; so the
\* counters never decrease, and 0 <= helpful_count <= total_votes.
C11_VoteCounters ==
    [][ \A r \in reviews : \A q \in reviews' :
          q.id = r.id =>
            /\ \A s \in VotingOn(r.id) :
                  /\ q.total_votes = r.total_votes + 1
                  /\ q.helpful_count = r.helpful_count + (IF rreq[s].helpful THEN 1 ELSE 0)
            /\ VotingOn(r.id) = {} =>
                  /\ q.total_votes = r.total_votes
                  /\ q.helpful_count = r.helpful_count
            /\ q.total_votes >= r.total_votes
            /\ q.helpful_count >= r.helpful_count
            /\ 0 <= q.helpful_count
            /\ q.helpful_count <= q.total_votes ]_vars

\* a not-helpful vote was counted: the answer shows one vote, none helpful
C11_Witness ==
    \E s \in Slots :
        /\ rreq[s].op = "helpful"
        /\ rreq[s].pc = "done"
        /\ rreq[s].status = 200
        /\ ~ rreq[s].helpful
        /\ rreq[s].review.total_votes = 1
        /\ rreq[s].review.helpful_count = 0

\* C12: a helpful request by the review's own author is answered with an
\* error (400) and one for an id that names no review with 404, in the step
\* of the check and with the reviews table unchanged; and no step that runs
\* markHelpful is taken for the author of the review.
C12_SelfVoteRejected ==
    [][ \A s \in Slots :
          /\ ( rreq[s].pc = "idle" /\ rreq'[s].op = "helpful" ) =>
                LET rows == { r \in reviews : r.id = rreq'[s].id }
                IN  /\ rows = {} =>
                          /\ rreq'[s].pc = "done"
                          /\ rreq'[s].status = 404
                          /\ reviews' = reviews
                    /\ ( \E r \in rows : r.user_id = rreq'[s].user ) =>
                          /\ rreq'[s].pc = "done"
                          /\ rreq'[s].status = 400
                          /\ reviews' = reviews
          /\ ( rreq[s].op = "helpful" /\ rreq[s].pc = "write" /\ rreq'[s].pc # "write" ) =>
                \A r \in reviews : r.id = rreq[s].id => r.user_id # rreq[s].user ]_vars

\* the author's vote on their own review was refused: the review is there
\* with no vote counted
C12_Witness ==
    \E s \in Slots :
        /\ rreq[s].op = "helpful"
        /\ rreq[s].pc = "done"
        /\ rreq[s].status = 400
        /\ \E r \in reviews : /\ r.id = rreq[s].id
                              /\ r.user_id = rreq[s].user
                              /\ r.total_votes = 0

\* C13: the movies table changes only in a step of a create, update or
\* delete request sent by an administrator; such a request from a user who
\* is no administrator or from a caller without a token is answered by the
\* middleware (403, 401) and inserts, changes and removes no row.
C13_AdminOnlyCatalog ==
    [][ /\ \A s \in Slots :
              ( /\ mreq[s].pc = "idle"
                /\ mreq'[s].op \in { "create", "update", "delete" }
                /\ ( mreq'[s].user \notin Users \/ roleOf(mreq'[s].user) # "admin" ) )
              => /\ mreq'[s].pc = "done"
                 /\ mreq'[s].status = ( IF mreq'[s].user \in Users THEN 403 ELSE 401 )
                 /\ movies' = movies
                 /\ movieSeq' = movieSeq
        /\ movies' # movies =>
              \E s \in Slots :
                  /\ mreq[s].pc = "idle"
                  /\ mreq'[s].op \in { "create", "update", "delete" }
                  /\ mreq'[s].user \in Users
                  /\ roleOf(mreq'[s].user) = "admin" ]_vars

\* a delete by a user who is no administrator was answered 403 and the row
\* it named is still there
C13_Witness ==
    \E s \in Slots :
        /\ mreq[s].op = "delete"
        /\ mreq[s].pc = "done"
        /\ mreq[s].user \in Users
        /\ roleOf(mreq[s].user) = "user"
        /\ mreq[s].status = 403
        /\ movies # {}

\* the slots whose handler of kind op runs its write on review id in the
\* step
WritingOn(op, id) ==
    { s \in Slots : /\ rreq[s].op = op
                    /\ rreq[s].pc = "write"
                    /\ rreq'[s].pc # "write"
                    /\ rreq[s].id = id }

\* C14: the title, content or rating of a review changes only in the write
\* step of an update request by its owner, and a review leaves the table
\* only in the write step of a delete request by its owner or by an
\* administrator; an update of another user's review (by an administrator
\* too) and a delete by a user who is neither owner nor administrator are
\* answered 403 with the reviews table unchanged.
C14_OwnerMutates ==
    [][ /\ \A r \in reviews :
              /\ \A q \in reviews' :
                    ( /\ q.id = r.id
                      /\ << q.title, q.content, q.rating >>
                           # << r.title, r.content, r.rating >> )
                    => \E s \in WritingOn("update", r.id) : rreq[s].user = r.user_id
              /\ ( \A q \in reviews' : q.id # r.id )
                    => \E s \in WritingOn("delete", r.id) :
                          \/ rreq[s].user = r.user_id
                          \/ roleOf(rreq[s].user) = "admin"
        /\ \A s \in Slots :
              ( /\ rreq[s].pc = "idle"
                /\ rreq'[s].op \in { "update", "delete" } )
              => \A r \in reviews :
                    ( /\ r.id = rreq'[s].id
                      /\ r.user_id # rreq'[s].user
                      /\ ( rreq'[s].op = "update" \/ roleOf(rreq'[s].user) # "admin" ) )
                    => /\ rreq'[s].pc = "done"
                       /\ rreq'[s].status = 403
                       /\ reviews' = reviews ]_vars

\* an administrator's update of another user's review was answered 403 and
\* the review still has the title it was created with
C14_Witness ==
    \E s \in Slots :
        /\ rreq[s].op = "update"
        /\ rreq[s].pc = "done"
        /\ rreq[s].status = 403
        /\ roleOf(rreq[s].user) = "admin"
        /\ \E r \in reviews : /\ r.id = rreq[s].id
                              /\ r.user_id # rreq[s].user
                              /\ r.title \in CreateTitles

\* C15: a clear request of a user removes every watchlist entry of that
\* user and no other: the removedCount it answers is the number of entries
\* the user had just before, the user has none afterwards, and the entries
\* of every other user are as they were.
C15_RemoveAllFrame ==
    [][ \A s \in Slots :
          ( wreq[s].pc = "idle" /\ wreq'[s].op = "clear" )
          => LET u == wreq'[s].user
             IN  /\ wreq'[s].pc = "done"
                 /\ wreq'[s].status = 200
                 /\ wreq'[s].removedCount =
                       Cardinality({ w \in watchlists : w.user_id = u })
                 /\ { w \in watchlists' : w.user_id = u } = {}
                 /\ { w \in watchlists' : w.user_id # u }
                       = { w \in watchlists : w.user_id # u } ]_vars

\* a user with two entries cleared the watchlist beside another user's
\* entry, which is still there
C15_Witness ==
    \E s \in Slots :
        /\ wreq[s].op = "clear"
        /\ wreq[s].pc = "done"
        /\ wreq[s].removedCount = 2
        /\ watchlists # {}
        /\ \A w \in watchlists : w.user_id # wreq[s].user

\* the key under which a client finds a queried reference in the lookup
QueriedKey(movieId, movieSource) ==
    movieId \o << "_" >> \o
        ( IF movieSource = "custom" THEN << "c", "u", "s", "t", "o", "m" >>
          ELSE << "o", "m", "d", "b" >> )

\* C16: in the answer of a check-multiple request every queried reference,
\* an omitted origin read as 'omdb', is reported true exactly when the user
\* has a watchlist entry with that movie identifier and origin; entries of
\* other users and entries of references that were not queried make no
\* queried reference true.
C16_CheckMultiple ==
    \A s \in Slots :
        ( wreq[s].op = "check-multiple" /\ wreq[s].pc = "done" )
        => /\ wreq[s].status = 200
           /\ \A i \in 1..Len(wreq[s].movies) :
                 LET movieId == wreq[s].movies[i].movieId
                     movieSource == IF wreq[s].movies[i].movieSource = NoValue
                                    THEN "omdb" ELSE wreq[s].movies[i].movieSource
                 IN  QueriedKey(movieId, movieSource) \in wreq[s].watchlistStatus
                        <=> \E w \in watchlists : /\ w.user_id = wreq[s].user
                                                  /\ w.movie_id = movieId
                                                  /\ w.movie_source = movieSource

\* "a" without an origin and "a_omdb" of origin custom were queried by a
\* user who has "a" of origin omdb on the watchlist, while only another
\* user has "a_omdb" of origin custom: the lookup holds the key a_omdb alone
C16_Witness ==
    \E s \in Slots :
        /\ wreq[s].op = "check-multiple"
        /\ wreq[s].pc = "done"
        /\ wreq[s].movies =
             << [ movieId |-> << "a" >>, movieSource |-> NoValue ],
                [ movieId |-> << "a", "_", "o", "m", "d", "b" >>, movieSource |-> "custom" ] >>
        /\ \E w \in watchlists : /\ w.user_id # wreq[s].user
                                 /\ w.movie_id = << "a", "_", "o", "m", "d", "b" >>
                                 /\ w.movie_source = "custom"
        /\ wreq[s].watchlistStatus = { << "a", "_", "o", "m", "d", "b" >> }

\* C17: a process started with JWT_SECRET and a database configuration
\* set and only the provider's credential OMDB_API_KEY missing does not
\* exit: start-up goes on to the listening server.
C17_StartsWithoutProviderKey ==
    ( /\ "OMDB_API_KEY" \notin env
      /\ "JWT_SECRET" \in env
      /\ ( "DATABASE_URL" \in env \/ DATABASE_VARS \subseteq env ) )
    => server # "exited"

\* the provider's call of the search gave no answer: no key, a rejected
\* call or a status that is not OK
SearchGatewayFailed ==
    \/ "OMDB_API_KEY" \notin env
    \/ omdbFetch.outcome \in { "throws", "status" }

\* the local results of the search as entries of the response
LocalEntries == [ i \in 1..Len(customResults) |-> transformToOMDBFormat(customResults[i]) ]

\* C18: a failure of the provider's gateway (credential absent, call
\* rejected, status not OK) fails no read path.  searchMovies returns an
\* empty Search, totalResults '0', Response 'False' and an Error marker; the
\* search response then holds exactly the local results without duplicates
\* (each entry is a local one, each local result is represented, no two
\* entries have the same title ignoring case and the same year) and its
\* totalResults is the number of local results; a detail request for a
\* reference of the provider is answered 404.
C18_GatewayFailureDegrades ==
    /\ ( omdbResults # NoAnswer /\ SearchGatewayFailed ) =>
          /\ omdbResults.Search = << >>
          /\ omdbResults.totalResults = << "0" >>
          /\ omdbResults.Response = "False"
          /\ omdbResults.Error # NoValue
    /\ ( searchResponse # NoResponse /\ SearchGatewayFailed ) =>
          LET found == searchResponse.Search
          IN  /\ \A i \in 1..Len(found) :
                    \E j \in 1..Len(LocalEntries) : found[i] = LocalEntries[j]
              /\ \A j \in 1..Len(LocalEntries) :
                    \E i \in 1..Len(found) :
                        /\ toLowerCase(found[i].Title) = toLowerCase(LocalEntries[j].Title)
                        /\ found[i].Year = LocalEntries[j].Year
              /\ \A i, k \in 1..Len(found) :
                    ( /\ toLowerCase(found[i].Title) = toLowerCase(found[k].Title)
                      /\ found[i].Year = found[k].Year ) => i = k
              /\ searchResponse.totalResults = numberToString(Len(customResults))
    /\ \A s \in Slots :
          ( /\ mreq[s].pc = "done"
            /\ mreq[s].consulted = { "omdb" }
            /\ ( "OMDB_API_KEY" \notin env \/ mreq[s].fetched \in { "throws", "status" } ) )
          => mreq[s].status = 404

\* the provider answered the search with a status that is not OK while two
\* local results are duplicates of each other, and a detail request whose
\* call was rejected has been answered
C18_Witness ==
    /\ "OMDB_API_KEY" \in env
    /\ omdbFetch.outcome = "status"
    /\ searchResponse # NoResponse
    /\ Len(customResults) = 2
    /\ Len(searchResponse.Search) = 1
    /\ searchResponse.totalResults = << "2" >>
    /\ mreq[1].pc = "done"
    /\ mreq[1].fetched = "throws"
    /\ mreq[1].status = 404

\* C19: the totalResults of the search response is the decimal numeral of
\* the provider's reported total plus the number of local results of the
\* page, counted before the deduplication, so dropped duplicates still
\* count; Response is 'True' exactly when the deduplicated list has an entry.
C19_TotalBeforeDedup ==
    searchResponse # NoResponse =>
        /\ decimalValue(searchResponse.totalResults)
             = decimalValue(omdbResults.totalResults) + Len(customResults)
        /\ numberToString(decimalValue(searchResponse.totalResults))
             = searchResponse.totalResults
        /\ searchResponse.Response \in { "True", "False" }
        /\ searchResponse.Response = "True" <=> Len(searchResponse.Search) > 0

\* the provider reported 11 entries, the one local result duplicated the
\* provider's entry and was dropped, and the response still reports 12
C19_Witness ==
    /\ searchResponse # NoResponse
    /\ omdbResults.totalResults = << "1", "1" >>
    /\ Len(omdbResults.Search) = 1
    /\ Len(customResults) = 1
    /\ Len(searchResponse.Search) = 1
    /\ searchResponse.totalResults = << "1", "2" >>
    /\ searchResponse.Response = "True"

\* C20: a role is fixed when the account is created.  Every row of the users
\* table has the role 'user' or 'admin', and every step (login, profile
\* update, password update, registration of another account, review and
\* watchlist requests) leaves every existing account in the table with the
\* role it had.
C20_RoleFixedAtCreation ==
    [][ /\ \A u \in users : u.role \in { "user", "admin" }
        /\ \A v \in users' : v.role \in { "user", "admin" }
        /\ \A u \in users :
              \E v \in users' : v.id = u.id /\ v.role = u.role ]_vars

\* the administrator's profile update has been answered after its name, its
\* email and its password were changed, and a registered third account is an
\* administrator too
C20_Witness ==
    /\ \E s \in Slots :
          /\ ureq[s].op = "profile"
          /\ ureq[s].status = 200
          /\ ureq[s].answeredRole = "admin"
    /\ \E u \in users :
          /\ u.id = 1
          /\ u.role = "admin"
          /\ u.name = "Jane Doe"
          /\ u.password_hash = hash("user123")
    /\ \E u \in users : u.id = 3 /\ u.role = "admin"

\* C21: registration makes an administrator only for a request that is
\* authorized to grant the role.  The register route runs no authentication,
\* so no registration is authorized: every account a registration has
\* created has the role 'user', and every answered registration reports it.
C21_RegistrationGrantsNoAdmin ==
    /\ \A u \in users : u \notin SeedUsers /\ u.id > 2 => u.role = "user"
    /\ \A s \in Slots :
          ( ureq[s].op = "register" /\ ureq[s].status = 201 )
          => ureq[s].answeredRole = "user"

\* C22: no two accounts share an email, and of two answered registrations
\* for the same email each is answered 201 (created) or 409 (conflict), at
\* most one of them 201, whether they ran one after the other or at the same
\* time.
C22_DuplicateEmailConflicts ==
    /\ \A u, v \in users : u.email = v.email => u.id = v.id
    /\ \A s, t \in Slots :
          ( /\ s # t
            /\ ureq[s].op = "register" /\ ureq[s].pc = "done"
            /\ ureq[t].op = "register" /\ ureq[t].pc = "done"
            /\ ureq[s].email = ureq[t].email )
          => /\ ureq[s].status \in { 201, 409 }
             /\ ureq[t].status \in { 201, 409 }
             /\ ~ ( ureq[s].status = 201 /\ ureq[t].status = 201 )

\* C23: a remove deletes the one entry of its user, movie identifier and
\* origin and is answered 200, or finds none, is answered 404 and changes
\* nothing; every other entry stays as it was.  An add that is answered 201,
\* after a remove as well, stores a new entry under a new key whose snapshot
\* is the one the add was sent with.
C23_RemoveThenAdd ==
    [][ \A s \in Slots :
          /\ ( wreq[s].pc = "idle" /\ wreq'[s].op = "remove" ) =>
                LET matching == EntriesOf(watchlists, wreq'[s].user, wreq'[s].movieId,
                                          wreq'[s].movieSource)
                IN  /\ wreq'[s].pc = "done"
                    /\ Cardinality(matching) <= 1
                    /\ watchlists' = watchlists \ matching
                    /\ wreq'[s].status = IF matching = {} THEN 404 ELSE 200
          /\ ( wreq[s].pc = "insert" /\ wreq'[s].status = 201 ) =>
                /\ watchlists' = watchlists \cup { wreq'[s].item }
                /\ wreq'[s].item.movie_data = wreq[s].movieData
                /\ wreq'[s].item.user_id = wreq[s].user
                /\ wreq'[s].item.movie_id = wreq[s].movieId
                /\ wreq'[s].item.movie_source = wreq[s].movieSource
                /\ \A w \in watchlists : w.id < wreq'[s].item.id ]_vars

\* an entry was removed (200) while the same user kept the movie under the
\* other origin, and a later add of the removed reference stored a new
\* entry, the third the table was given
C23_Witness ==
    \E s, t \in Slots :
        /\ s # t
        /\ wreq[t].op = "remove" /\ wreq[t].status = 200
        /\ wreq[s].op = "add" /\ wreq[s].status = 201
        /\ wreq[s].user = wreq[t].user
        /\ wreq[s].movieId = wreq[t].movieId
        /\ wreq[s].movieSource = wreq[t].movieSource
        /\ wreq[s].item.id = 3
        /\ wreq[s].item \in watchlists
        /\ \E w \in watchlists : /\ w.user_id = wreq[s].user
                                 /\ w.movie_id = wreq[s].movieId
                                 /\ w.movie_source # wreq[s].movieSource

\* C24: Movie.update of an existing row sets every column whose property
\* the body has to the value of the body, a rating of 0 and an empty cast
\* list included, and leaves every other column and every other row as they
\* were; an update of an id without a row is answered 404 and changes
\* nothing.
C24_UpdateAppliesProvided ==
    [][ \A s \in Slots :
          ( /\ mreq[s].pc = "idle"
            /\ mreq'[s].op = "update"
            /\ mreq'[s].status \in { 200, 404 } )
          => LET id == mreq'[s].id
                 movieData == mreq'[s].body
                 old == Movie_findById(movies, id)
                 new == Movie_findById(movies', id)
             IN  /\ { r \in movies' : r.id # id } = { r \in movies : r.id # id }
                 /\ mreq'[s].status = 404 <=> old = NoMovieRow
                 /\ old = NoMovieRow => movies' = movies
                 /\ old # NoMovieRow =>
                       /\ new.title = IF "title" \in movieData.defined
                                      THEN movieData.title ELSE old.title
                       /\ new.year = IF "year" \in movieData.defined
                                     THEN movieData.year ELSE old.year
                       /\ new.imdb_rating = IF "imdbRating" \in movieData.defined
                                            THEN movieData.imdbRating ELSE old.imdb_rating
                       /\ new.cast_members = IF "cast" \in movieData.defined
                                             THEN movieData.cast ELSE old.cast_members ]_vars

\* the sum of the counts of a list of popularity rows
RECURSIVE SumCounts(_)
SumCounts(rows) ==
    IF Len(rows) = 0 THEN 0
    ELSE decimalValue(rows[Len(rows)].watchlist_count)
           + SumCounts(SubSeq(rows, 1, Len(rows) - 1))

\* C25: getPopularMovies returns one row per (movie identifier, origin,
\* snapshot) that occurs in the table, each with the number of entries that
\* have that identifier, origin and snapshot, no group twice, larger groups
\* first, at most limit rows and none left out that is larger than one
\* returned; when the limit cuts nothing the counts add up to the number of
\* entries.
C25_PopularGroups ==
    \A s \in Slots :
        ( wreq[s].op = "popular" /\ wreq[s].pc = "done" ) =>
            LET rows == wreq[s].popular
                keys == { << w.movie_id, w.movie_source, w.movie_data >> : w \in watchlists }
                keyOf(g) == << g.movie_id, g.movie_source, g.movie_data >>
                size(k) == Cardinality({ w \in watchlists :
                              << w.movie_id, w.movie_source, w.movie_data >> = k })
            IN  /\ Len(rows) <= wreq[s].limit
                /\ Len(rows) = IF wreq[s].limit < Cardinality(keys)
                               THEN wreq[s].limit ELSE Cardinality(keys)
                /\ \A i \in 1..Len(rows) :
                      /\ keyOf(rows[i]) \in keys
                      /\ decimalValue(rows[i].watchlist_count) = size(keyOf(rows[i]))
                /\ \A i, j \in 1..Len(rows) : keyOf(rows[i]) = keyOf(rows[j]) => i = j
                /\ \A i, j \in 1..Len(rows) :
                      i < j => size(keyOf(rows[i])) >= size(keyOf(rows[j]))
                /\ \A k \in keys :
                      ( \A i \in 1..Len(rows) : keyOf(rows[i]) # k ) =>
                          \A i \in 1..Len(rows) : size(keyOf(rows[i])) >= size(k)
                /\ Cardinality(keys) <= wreq[s].limit =>
                      SumCounts(rows) = Cardinality(watchlists)

\* two users hold the same movie reference with different snapshots, and the
\* listing reports them as two groups of one entry each
C25_Witness ==
    \E s \in Slots :
        /\ wreq[s].op = "popular" /\ wreq[s].pc = "done"
        /\ Cardinality(watchlists) = 2
        /\ \E v, w \in watchlists :
              /\ v.user_id # w.user_id
              /\ v.movie_id = w.movie_id
              /\ v.movie_source = w.movie_source
              /\ v.movie_data # w.movie_data
        /\ Len(wreq[s].popular) = 2
        /\ wreq[s].popular[1].watchlist_count = << "1" >>
        /\ wreq[s].popular[2].watchlist_count = << "1" >>

\* the Movie Reference a stored (movie identifier, origin) pair denotes under
\* the identity scheme, in its encoded form: an identifier with the prefix
\* is the local movie it encodes, an identifier without it is a local key
\* when the origin is 'custom' and a provider identifier otherwise
ReferenceOf(movieId, movieSource) ==
    IF startsWith(movieId, CustomPrefix) THEN movieId
    ELSE IF movieSource = "custom" THEN CustomPrefix \o movieId
    ELSE movieId

\* C26: no user holds two reviews or two watchlist entries for the same
\* movie: two rows of one user whose stored identifier and origin denote the
\* same Movie Reference are the same row.
C26_OneRecordPerMovie ==
    /\ \A v, w \in watchlists :
          ( /\ v.user_id = w.user_id
            /\ ReferenceOf(v.movie_id, v.movie_source)
                 = ReferenceOf(w.movie_id, w.movie_source) )
          => v = w
    /\ \A q, r \in reviews :
          ( /\ q.user_id = r.user_id
            /\ ReferenceOf(q.movie_id, q.movie_source)
                 = ReferenceOf(r.movie_id, r.movie_source) )
          => q = r

\* the helpful requests on review id whose write has been made
VotesCast(id) ==
    { s \in Slots : /\ rreq[s].op = "helpful"
                    /\ rreq[s].id = id
                    /\ \/ rreq[s].pc = "reload"
                       \/ rreq[s].pc = "done" /\ rreq[s].status = 200 }

\* C27: votes written in any interleaving lose no update: a review that
\* began without votes has as many total votes as helpful requests have
\* written to it, and as many helpful votes as those with helpful = true.
C27_NoLostVote ==
    \A r \in reviews :
        /\ r.total_votes = Cardinality(VotesCast(r.id))
        /\ r.helpful_count =
             Cardinality({ s \in VotesCast(r.id) : rreq[s].helpful })

\* two votes on one review, one helpful and one not, both written before
\* either handler went on to its reload
C27_Witness ==
    \E s, t \in Slots :
        /\ s # t
        /\ rreq[s].pc = "reload" /\ rreq[t].pc = "reload"
        /\ rreq[s].id = rreq[t].id
        /\ rreq[s].helpful /\ ~rreq[t].helpful
        /\ \E r \in reviews :
              r.id = rreq[s].id /\ r.total_votes = 2 /\ r.helpful_count = 1

\* C28: an update or helpful handler whose review was deleted between its
\* check and its write reports the review as not found, and the deleted
\* review is neither stored again nor changed.
C28_DeletedMeanwhileNotFound ==
    [][ \A s \in Slots :
          ( /\ rreq[s].op \in { "update", "helpful" }
            /\ rreq[s].pc = "write"
            /\ rreq'[s].pc # "write"
            /\ Review_findById(reviews, rreq[s].id) = NoRow )
          => /\ rreq'[s].pc = "done"
             /\ rreq'[s].status = 404
             /\ reviews' = reviews ]_vars

\* the rows of a sequence
Listed(rows) == { rows[i] : i \in 1..Len(rows) }

\* C29: a delete of a local movie that is answered 200 removes that one row
\* of movies and leaves every review and watchlist entry as it was; a first
\* page wide enough for them lists all the reviews and entries of the
\* user, those of deleted movies included; and details of the reference of
\* a local movie that has no row are answered 404.
C29_DeleteLeavesReferences ==
    [][ \A s \in Slots :
          /\ ( mreq[s].pc = "idle" /\ mreq'[s].op = "delete" /\ mreq'[s].status = 200 )
             => /\ Movie_findById(movies, mreq'[s].id) \in movies
                /\ movies' = movies \ { Movie_findById(movies, mreq'[s].id) }
                /\ reviews' = reviews
                /\ watchlists' = watchlists
          /\ ( mreq[s].pc = "idle" /\ mreq'[s].op = "details" )
             => \A k \in 1..MaxMovieSerial :
                   ( /\ mreq'[s].ref = encodeCustom(k)
                     /\ Movie_findById(movies, k) = NoMovieRow )
                   => mreq'[s].status = 404
          /\ ( /\ wreq[s].pc # "done" /\ wreq'[s].pc = "done" /\ wreq'[s].op = "list"
               /\ wreq'[s].offset = 0
               /\ wreq'[s].totalCount <= wreq'[s].limit )
             => /\ wreq'[s].status = 200
                /\ Listed(wreq'[s].watchlist)
                     = { w \in watchlists : w.user_id = wreq'[s].user }
          /\ ( /\ rreq[s].pc = "idle" /\ rreq'[s].op = "userlist"
               /\ rreq'[s].offset = 0
               /\ Cardinality({ r \in reviews : r.user_id = rreq'[s].user })
                    <= rreq'[s].limit )
             => /\ rreq'[s].status = 200
                /\ Listed(rreq'[s].page)
                     = { r \in reviews : r.user_id = rreq'[s].user }
      ]_vars

\* movie 1 has been deleted; its review and its watchlist entry are stored
\* and have been listed, and details of custom_1 were answered 404
C29_Witness ==
    /\ Movie_findById(movies, 1) = NoMovieRow
    /\ mreq[2].op = "details" /\ mreq[2].ref = encodeCustom(1)
    /\ mreq[2].pc = "done" /\ mreq[2].status = 404
    /\ \E r \in reviews :
          /\ r.movie_id = encodeCustom(1) /\ r.movie_source = "custom"
          /\ rreq[1].op = "userlist" /\ rreq[1].pc = "done"
          /\ r \in Listed(rreq[1].page)
    /\ \E w \in watchlists :
          /\ w.movie_id = encodeCustom(1) /\ w.movie_source = "custom"
          /\ wreq[1].op = "list" /\ wreq[1].pc = "done"
          /\ w \in Listed(wreq[1].watchlist)

\* C30: in the review listings by user and by movie, hasMore is true
\* exactly when at least one review exists beyond the returned page, that
\* is when offset + limit is less than the number of rows the listing
\* ranges over at the time of its query.
C30_HasMoreExact ==
    [][ \A s \in Slots :
          /\ ( rreq[s].pc = "idle" /\ rreq'[s].op = "userlist" )
             => ( rreq'[s].hasMore
                    <=> rreq'[s].offset + rreq'[s].limit
                          < Cardinality({ r \in reviews : r.user_id = rreq'[s].user }) )
          /\ ( rreq[s].pc = "page" /\ rreq'[s].pc = "done" /\ rreq'[s].status = 200 )
             => ( rreq'[s].hasMore
                    <=> rreq'[s].offset + rreq'[s].limit
                          < Cardinality({ r \in reviews :
                                            /\ r.movie_id = rreq'[s].movieId
                                            /\ r.movie_source = rreq'[s].movieSource }) )
      ]_vars

=============================================================================
